---------------------------- MODULE Spec2Model ----------------------------
(***************************************************************************)
(* FinSight agent: the orchestration engine (src/src/orchestrator.py and   *)
(* src/src/agents/*.py) and the structured-report wire format, i.e. the    *)
(* per-stage report formatter (orchestrator._format_agent_report), the     *)
(* final-report formatter (orchestrator._generate_final_report) and the    *)
(* regular-expression extractor that reads the reports back (src/api.py).  *)
(*                                                                         *)
(* Numbers.  A Python float is modelled as an integer count of millionths  *)
(* (Scale units per 1.0), so that "%.2f" and "%.2%" round and float()      *)
(* parses.                                                                 *)
(*                                                                         *)
(* Text.  A report is the sequence of its lines (the text split at "\n").  *)
(* A line is a record [t, lvl, n, s, v]: t the kind of line, lvl the       *)
(* number of "#" of a heading, n the number of a numbered item, s the      *)
(* label, title or free text, v the tokens that follow a "**Label:**".     *)
(* A token is one character of a number ("0".."9", ".", "-", "%"), one     *)
(* word, or one opaque run of other text.  The regular expressions of      *)
(* api.py are translated to searches over lines and tokens.                *)
(***************************************************************************)
EXTENDS Integers, Sequences, FiniteSets, TLC

VARIABLES
    pc,         \* position of run_analysis: the node about to run
    state,      \* the LangGraph state (RunState): a function on the keys set
    invoked,    \* history: the nodes invoked, in order
    log,        \* history: one entry per merged node update
    artifacts,  \* the output directory: the files written, in order
    trace,      \* history: node invocations and file writes, in order
    main,       \* the command (main.py): its position, arguments, environment
                \* and exit code; [pc |-> "off"] when run_analysis is called
                \* as a library
    apiPhase,   \* the reader (api.py): "idle", "file", "done"
    apiFile,    \* the latest artifact the reader will open: [stage, content]
    apiSource,  \* <<r>> when apiFile was written from result r, else <<>>
    apiEdit,    \* the change the file got after it was written: [drop, corrupt]
    apiOut,     \* <<>> or <<the extractor's return value>>
    clock,      \* the wall clock, in ticks
    runs,       \* the runs sharing one output directory: ticker and position
    disk,       \* the output directory: file name -> content and writers
    agentCall   \* <<>> or <<one call of an agent's process(): what it was
                \* given, the calls it issued, the update it returned>>

vars == <<pc, state, invoked, log, artifacts, trace, main,
          apiPhase, apiFile, apiSource, apiEdit, apiOut, agentCall,
          clock, runs, disk>>

diskVars == <<clock, runs, disk>>

runVars == <<pc, state, invoked, log, artifacts, trace, main>>
apiVars == <<apiPhase, apiFile, apiSource, apiEdit, apiOut>>

-----------------------------------------------------------------------------
(* Bounds of the model *)

\* longest event list a completion returns
MaxEvents == 2
\* longest driver / headline / validation-note list a completion returns
MaxList == 2

-----------------------------------------------------------------------------
(* Numbers *)

Scale == 1000 * 1000

Abs(x) == IF x < 0 THEN -x ELSE x

DigitSeq == <<"0", "1", "2", "3", "4", "5", "6", "7", "8", "9">>
DigitSet == {DigitSeq[i] : i \in 1..10}
DigitChar(d) == DigitSeq[d + 1]
DigitVal(c) == (CHOOSE i \in 1..10 : DigitSeq[i] = c) - 1

RECURSIVE NatToChars(_)
NatToChars(n) ==
    IF n < 10 THEN <<DigitChar(n)>>
    ELSE NatToChars(n \div 10) \o <<DigitChar(n % 10)>>

\* x / q rounded to the nearest integer, ties to even (x >= 0)
RoundHalfEven(x, q) ==
    LET d == x \div q
        r == x % q
    IN  IF 2 * r < q THEN d
        ELSE IF 2 * r > q THEN d + 1
        ELSE IF d % 2 = 0 THEN d ELSE d + 1

\* the characters of h hundredths, written with two decimals
Hundredths(neg, h) ==
    (IF neg THEN <<"-">> ELSE <<>>)
        \o NatToChars(h \div 100)
        \o <<".", DigitChar((h % 100) \div 10), DigitChar(h % 10)>>

\* f"{x:.2f}"
FormatFixed2(x) == Hundredths(x < 0, RoundHalfEven(Abs(x), Scale \div 100))

\* a percentage written as the fraction it stands for
FormatPercent2AsFraction(x) == FormatFixed2(x) \o <<"%">>

\* f"{x:.2%}"
FormatPercent2(x) ==
    Hundredths(x < 0, RoundHalfEven(Abs(x), Scale \div 10000)) \o <<"%">>

\* str(n) of an int n >= 0
FormatInt(n) == NatToChars(n)

RECURSIVE DigitsToNat(_)
DigitsToNat(cs) ==
    IF cs = <<>> THEN 0
    ELSE 10 * DigitsToNat(SubSeq(cs, 1, Len(cs) - 1)) + DigitVal(cs[Len(cs)])

RECURSIVE Pow10(_)
Pow10(k) == IF k = 0 THEN 1 ELSE 10 * Pow10(k - 1)

\* float(cs) for cs made of the characters "-", "." and digits: ok is FALSE
\* where Python raises ValueError; v is the value in Scale units
ParseFloat(cs) ==
    LET neg  == cs # <<>> /\ cs[1] = "-"
        body == IF neg THEN Tail(cs) ELSE cs
        dots == {i \in 1..Len(body) : body[i] = "."}
        dot  == IF dots = {} THEN Len(body) + 1 ELSE CHOOSE i \in dots : TRUE
        ip   == SubSeq(body, 1, dot - 1)
        fp   == SubSeq(body, dot + 1, Len(body))
        fp6  == SubSeq(fp, 1, IF Len(fp) < 6 THEN Len(fp) ELSE 6)
        ok   == /\ \A i \in 1..Len(body) : body[i] \in DigitSet \cup {"."}
                /\ Cardinality(dots) <= 1
                /\ Len(ip) + Len(fp) >= 1
        mag  == DigitsToNat(ip) * Scale
                    + DigitsToNat(fp6) * Pow10(6 - Len(fp6))
    IN  [ok |-> ok, v |-> IF ~ok THEN 0 ELSE IF neg THEN -mag ELSE mag]

\* int(cs) for cs made of digits
ParseInt(cs) == DigitsToNat(cs)


-----------------------------------------------------------------------------
(* Sequences *)

Prefix(seq, k) == SubSeq(seq, 1, IF k < Len(seq) THEN k ELSE Len(seq))
Prefixes(seq, k) == {Prefix(seq, i) : i \in 0..k}
IsPrefix(a, b) == Len(a) <= Len(b) /\ SubSeq(b, 1, Len(a)) = a
Min(S) == CHOOSE x \in S : \A y \in S : x <= y

RECURSIVE Flatten(_)
Flatten(ss) == IF ss = <<>> THEN <<>> ELSE Head(ss) \o Flatten(Tail(ss))

\* the longest prefix of seq whose elements are all in S
RECURSIVE TakeWhile(_, _)
TakeWhile(seq, S) ==
    IF seq = <<>> \/ Head(seq) \notin S THEN <<>>
    ELSE <<Head(seq)>> \o TakeWhile(Tail(seq), S)

-----------------------------------------------------------------------------
(* Tokens: the character classes of the patterns of api.py *)

\* the tokens \w+ accepts besides digits: every word the reports carry where
\* a pattern captures \w+
WordToks ==
    {"very_positive", "positive", "neutral", "negative", "very_negative",
     "very_high", "high", "moderate", "low", "very_low", "medium",
     "HIGH", "MEDIUM", "LOW", "Yes", "No", "N", "A",
     "merger", "earnings_beat", "product", "launch", "guidance_raise",
     "transcript", "both", "K", "filing", "GOOGL", "MSFT"}

WordChars == WordToks \cup DigitSet          \* \w
NumChars == DigitSet \cup {"."}              \* [\d.]
SignedNumChars == NumChars \cup {"-"}        \* [-\d.]

-----------------------------------------------------------------------------
(* Lines of a report *)

L(t, lvl, n, s, v) == [t |-> t, lvl |-> lvl, n |-> n, s |-> s, v |-> v]

Blank == L("blank", 0, 0, "", <<>>)             \* an empty line
Rule == L("rule", 0, 0, "", <<>>)               \* ---
H(lvl, title) == L("h", lvl, 0, title, <<>>)    \* ## title
HEvent(i, ty) == L("hevent", 3, i, "Event", ty) \* ### Event i: ty
Field(lab, v) == L("field", 0, 0, lab, v)       \* **lab:** v
BField(lab, v) == L("bfield", 0, 0, lab, v)     \* - **lab:** v
Bullet(s) == L("bullet", 0, 0, s, <<>>)         \* - s
Numbered(i, s) == L("numbered", 0, i, s, <<>>)  \* i. s
Para(s) == IF s = "" THEN Blank ELSE L("para", 0, 0, s, <<>>)

\* text.split("\n") of a free text kept as the sequence of its lines; the
\* empty text is one empty line
TextLines(ps) ==
    IF ps = <<>> THEN <<Blank>> ELSE [i \in 1..Len(ps) |-> Para(ps[i])]

\* chr(10).join(f'- {x}' for x in items)
BulletLines(items) ==
    IF items = <<>> THEN <<Blank>>
    ELSE [i \in 1..Len(items) |-> Bullet(items[i])]

\* ... if items else 'None'
BulletsOrNone(items) ==
    IF items = <<>> THEN <<Para("None")>> ELSE BulletLines(items)

TwoSpaces == "  "
RangeSigned == " (range: -1.0 to 1.0)"
RangeUnit == " (range: 0.0 to 1.0)"
YesNo(b) == IF b THEN <<"Yes">> ELSE <<"No">>

\* str.upper() of an impact assessment
Upper(w) == CASE w = "high" -> "HIGH" [] w = "medium" -> "MEDIUM"
              [] w = "low" -> "LOW" [] OTHER -> w

\* the three header lines of a stage report
ReportHead(title, agent, ticker, ts) ==
    << H(1, title), Blank,
       Field("Ticker", <<ticker, TwoSpaces>>),
       Field("Generated", <<ts, TwoSpaces>>),
       Field("Agent", <<agent>>),
       Blank, Rule, Blank >>

-----------------------------------------------------------------------------
(* The per-stage formatter: _format_agent_report *)

FormatSentimentReport(ticker, ts, r) ==
    ReportHead("Sentiment Analysis Report", "Sentiment Analysis Agent",
               ticker, ts)
    \o << H(2, "Overall Assessment"), Blank,
          BField("Sentiment", <<r.overall_sentiment>>),
          BField("Score", FormatFixed2(r.sentiment_score) \o <<RangeSigned>>),
          BField("Confidence", FormatPercent2(r.confidence)),
          Blank,
          H(2, "Market Sentiment"), Blank >>
    \o TextLines(r.market_sentiment)
    \o << Blank, H(2, "Key Sentiment Drivers"), Blank >>
    \o BulletLines(r.key_sentiment_drivers)
    \o << Blank, H(2, "News Headlines Analyzed"), Blank >>
    \o BulletsOrNone(r.news_headlines)
    \o << Blank, H(2, "Tool Validations"), Blank >>
    \o BulletsOrNone(r.tool_validations)
    \o << Blank >>

\* one event of events_section: "\n### Event i: type\n\n- ...\n"
EventSectionLines(i, e) ==
    << Blank, HEvent(i, e.event_type), Blank,
       BField("Description", <<e.description>>),
       BField("Mentioned in Call", YesNo(e.mentioned_in_call)),
       BField("Verified", YesNo(e.verified)),
       BField("Source", e.source),
       BField("Impact", <<Upper(e.impact_assessment)>>) >>

\* events_section, then the "\n\n" that follows it in the template: a
\* non-empty section ends with "\n", so two empty lines follow it
EventsSection(events) ==
    IF events = <<>> THEN << Para("*No events detected*"), Blank >>
    ELSE Flatten([i \in 1..Len(events) |-> EventSectionLines(i, events[i])])
            \o << Blank, Blank >>

FormatEventReport(ticker, ts, r) ==
    ReportHead("Event Detection Report", "Significant Event Detection Agent",
               ticker, ts)
    \o << H(2, "Summary"), Blank,
          BField("Total Events Found", FormatInt(r.total_events_found)),
          BField("Verified Events", FormatInt(r.verified_count)),
          BField("Confidence", FormatPercent2(r.confidence)),
          Blank,
          H(2, "Detected Events"), Blank >>
    \o EventsSection(r.events)
    \o << H(2, "Tool Validations"), Blank >>
    \o BulletsOrNone(r.tool_validations)
    \o << Blank >>

\* one insight of insights_section
InsightSectionLines(a) ==
    << Blank, H(3, a.focus_item), Blank,
       Field("Question", <<a.question, TwoSpaces>>),
       Field("Answer", <<a.answer, TwoSpaces>>),
       Field("Confidence", FormatPercent2(a.confidence)) >>

InsightsSection(insights) ==
    IF insights = <<>> THEN << Para("*No insights available*"), Blank >>
    ELSE Flatten([i \in 1..Len(insights) |-> InsightSectionLines(insights[i])])
            \o << Blank, Blank >>

FormatVolatilityReport(ticker, ts, r) ==
    ReportHead("Volatility Prediction Report", "Volatility Prediction Agent",
               ticker, ts)
    \o << H(2, "Prediction"), Blank,
          BField("Predicted Volatility", <<r.predicted_volatility>>),
          BField("Volatility Score",
                 FormatFixed2(r.volatility_score) \o <<RangeUnit>>),
          BField("Historical Volatility",
                 FormatPercent2(r.historical_volatility)),
          BField("Confidence", FormatPercent2(r.confidence)),
          Blank,
          H(2, "Key Volatility Drivers"), Blank >>
    \o BulletLines(r.key_volatility_drivers)
    \o << Blank, H(2, "Sentiment Impact"), Blank >>
    \o TextLines(r.sentiment_impact)
    \o << Blank, H(2, "Event Impact"), Blank >>
    \o TextLines(r.event_impact)
    \o << Blank, H(2, "Transcript Insights"), Blank >>
    \o InsightsSection(r.transcript_insights)
    \o << H(2, "Tool Validations"), Blank >>
    \o BulletsOrNone(r.tool_validations)
    \o << Blank >>

\* _format_agent_report: one format per agent name, else a stub
FormatAgentReport(agent_name, ticker, ts, r) ==
    CASE agent_name = "sentiment" -> FormatSentimentReport(ticker, ts, r)
      [] agent_name = "event_detection" -> FormatEventReport(ticker, ts, r)
      [] agent_name = "volatility" -> FormatVolatilityReport(ticker, ts, r)
      [] OTHER -> << H(1, "Report"), Blank,
                     Para("*Report format not implemented*") >>

-----------------------------------------------------------------------------
(* The extractor: api.py.  Patterns over one line *)

IsFieldLine(l) == l.t \in {"field", "bfield"}
IsBlank(l) == l.t = "blank"
StartsHash2(l) == l.t \in {"h", "hevent"} /\ l.lvl >= 2     \* line starts "##"
StartsHash3(l) == l.t \in {"h", "hevent"} /\ l.lvl >= 3     \* line starts "###"
StartsRule(l) == l.t = "rule"                                \* line starts "---"
\* line.strip().startswith('-')
StartsDash(l) == l.t \in {"bullet", "bfield", "rule"}

CapWord(v) == TakeWhile(v, WordChars)                \* (\w+)
CapSigned(v) == TakeWhile(v, SignedNumChars)         \* ([-\d.]+)
CapNum(v) == TakeWhile(v, NumChars)                  \* ([\d.]+)
CapInt(v) == TakeWhile(v, DigitSet)                  \* (\d+)
CapRest(v) == v                                      \* ([^\n]+)
\* ([\d.]+)%
CapNumPct(v) ==
    LET p == CapNum(v)
    IN  IF p # <<>> /\ Len(v) > Len(p) /\ v[Len(p) + 1] = "%" THEN p ELSE <<>>

\* re.search(r'\*\*lab:\*\*\s*(...)', content): the capture of the first
\* line that carries **lab:** followed by a match, <<>> when there is none
FieldCapture(content, lab, Cap(_)) ==
    LET I == {i \in 1..Len(content) :
                /\ IsFieldLine(content[i])
                /\ content[i].s = lab
                /\ Cap(content[i].v) # <<>>}
    IN  IF I = {} THEN <<>> ELSE Cap(content[Min(I)].v)

MetaKeys == {"ticker", "generated", "agent", "sentiment", "score", "confidence",
             "total_events", "verified_events", "predicted_volatility",
             "volatility_score", "historical_volatility"}
FloatKeys == {"score", "volatility_score", "historical_volatility", "confidence"}
IntKeys == {"total_events", "verified_events"}

MetaCapture(content, key) ==
    CASE key = "ticker" -> FieldCapture(content, "Ticker", CapWord)
      [] key = "generated" -> FieldCapture(content, "Generated", CapRest)
      [] key = "agent" -> FieldCapture(content, "Agent", CapRest)
      [] key = "sentiment" -> FieldCapture(content, "Sentiment", CapWord)
      [] key = "score" -> FieldCapture(content, "Score", CapSigned)
      [] key = "confidence" -> FieldCapture(content, "Confidence", CapNumPct)
      [] key = "total_events" ->
            FieldCapture(content, "Total Events Found", CapInt)
      [] key = "verified_events" ->
            FieldCapture(content, "Verified Events", CapInt)
      [] key = "predicted_volatility" ->
            FieldCapture(content, "Predicted Volatility", CapWord)
      [] key = "volatility_score" ->
            FieldCapture(content, "Volatility Score", CapNum)
      [] key = "historical_volatility" ->
            FieldCapture(content, "Historical Volatility", CapNumPct)

\* a conversion that scales the captured percentages to fractions
MetaConvertFraction(key, cap) ==
    IF key \in {"confidence", "historical_volatility"}
    THEN ParseFloat(cap).v \div 100
    ELSE IF key \in FloatKeys THEN ParseFloat(cap).v
    ELSE IF key \in IntKeys THEN ParseInt(cap)
    ELSE cap

\* float(value), int(value) or value, by key
MetaConvert(key, cap) ==
    IF key \in FloatKeys THEN ParseFloat(cap).v
    ELSE IF key \in IntKeys THEN ParseInt(cap)
    ELSE cap

\* _extract_metadata: md holds the keys whose pattern matched; ok is FALSE
\* when float() raises ValueError on a captured text
ExtractMetadata(content) ==
    LET present == {k \in MetaKeys : MetaCapture(content, k) # <<>>}
    IN  [ok |-> \A k \in present \cap FloatKeys :
                    ParseFloat(MetaCapture(content, k)).ok,
         md |-> [k \in present |-> MetaConvert(k, MetaCapture(content, k))]]

\* metadata.get(key, default)
Get(md, key, default) == IF key \in DOMAIN md THEN md[key] ELSE default

-----------------------------------------------------------------------------
(* Patterns over several lines *)

\* "\n\n##" after line j
TermHash2(content, j) ==
    j + 2 <= Len(content) /\ IsBlank(content[j + 1])
        /\ StartsHash2(content[j + 2])
\* "\n\n###" after line j
TermHash3(content, j) ==
    j + 2 <= Len(content) /\ IsBlank(content[j + 1])
        /\ StartsHash3(content[j + 2])
\* "\n\n---" after line j
TermRule(content, j) ==
    j + 2 <= Len(content) /\ IsBlank(content[j + 1])
        /\ StartsRule(content[j + 2])
\* "\Z" after line j
TermEnd(content, j) == j = Len(content)

TermA(content, j) == TermHash2(content, j)           \* \n\n##
TermB(content, j) ==                                 \* (?:\n\n##|\n\n---|\Z)
    TermHash2(content, j) \/ TermRule(content, j) \/ TermEnd(content, j)
TermC(content, j) ==                                 \* (?:\n\n\*\*|\n\n##|\Z)
    \/ j + 2 <= Len(content) /\ IsBlank(content[j + 1])
          /\ content[j + 2].t = "field"
    \/ TermHash2(content, j) \/ TermEnd(content, j)
TermD(content, j) ==                                 \* (?:\n\n###|\n\n##|\Z)
    TermHash3(content, j) \/ TermHash2(content, j) \/ TermEnd(content, j)

\* the lines a lazy (.*?) captures from the start of line a up to the first
\* line end where Term matches, for the first start in A that has a match
LazySection(content, A, Term(_, _)) ==
    LET ok(a) == a <= Len(content) /\ \E j \in a..Len(content) : Term(content, j)
        S == {a \in A : ok(a)}
    IN  IF S = {} THEN [found |-> FALSE, lines |-> <<>>]
        ELSE LET a == Min(S)
                 j == Min({k \in a..Len(content) : Term(content, k)})
             IN  [found |-> TRUE, lines |-> SubSeq(content, a, j)]

\* the starts after "## title\n\n"; a heading of more "#" ends with the same
\* characters and matches too
AfterHeading(content, lvl, title) ==
    {i + 2 : i \in {k \in 1..Len(content) :
                      /\ content[k].t = "h" /\ content[k].lvl >= lvl
                      /\ content[k].s = title
                      /\ k + 1 <= Len(content) /\ IsBlank(content[k + 1])}}

\* the starts after "**lab:**\n"
AfterBoldLine(content, lab) ==
    {i + 1 : i \in {k \in 1..Len(content) :
                      /\ IsFieldLine(content[k]) /\ content[k].s = lab
                      /\ content[k].v = <<>>}}

\* str.strip() of a captured text: the empty lines at both ends go
RECURSIVE StripBlank(_)
StripBlank(lines) ==
    IF lines = <<>> THEN <<>>
    ELSE IF IsBlank(Head(lines)) THEN StripBlank(Tail(lines))
    ELSE IF IsBlank(lines[Len(lines)])
         THEN StripBlank(SubSeq(lines, 1, Len(lines) - 1))
    ELSE lines

\* [line.strip('- ').strip() for line in text.split('\n')
\*  if line.strip().startswith('-')]
DashItems(lines) ==
    LET ds == SelectSeq(lines, StartsDash)
    IN  [i \in 1..Len(ds) |-> ds[i].s]

\* a list section: the items of the match, [] when the pattern fails
ListSection(sec) == IF sec.found THEN DashItems(StripBlank(sec.lines)) ELSE <<>>
\* a text section: group(1).strip(), "" when the pattern fails
TextSection(sec) == IF sec.found THEN StripBlank(sec.lines) ELSE <<>>

-----------------------------------------------------------------------------
(* The extractor operations of FinSightAPI.  Each returns [raised |-> TRUE] *)
(* where the Python raises, else a record with raised |-> FALSE.  The       *)
(* 'generated' entry (a timestamp, datetime.now() by default) is left out.  *)

Raised == [raised |-> TRUE]

\* the defaults of the .get(...) calls, in the units the code returns
DefaultSentimentScore == (75 * Scale) \div 100          \* 0.75
DefaultConfidence == 85 * Scale                         \* 85.0
DefaultEventConfidence == 90 * Scale                    \* 90.0
DefaultVolatilityScore == (65 * Scale) \div 100         \* 0.65
DefaultHistoricalVolatility == 20 * Scale               \* 20.0

analyze_sentiment(ticker, content) ==
    LET m == ExtractMetadata(content)
        md == m.md
    IN  IF ~m.ok THEN Raised
        ELSE [raised |-> FALSE,
              ticker |-> Get(md, "ticker", <<ticker>>),
              sentiment |-> Get(md, "sentiment", <<"positive">>),
              score |-> Get(md, "score", DefaultSentimentScore),
              confidence |-> Get(md, "confidence", DefaultConfidence),
              market_summary |->
                  TextSection(LazySection(content,
                      AfterHeading(content, 2, "Market Sentiment"), TermA)),
              key_drivers |->
                  ListSection(LazySection(content,
                      AfterHeading(content, 2, "Key Sentiment Drivers"), TermA)),
              tool_validations |->
                  ListSection(LazySection(content,
                      AfterBoldLine(content, "Tool Validations"), TermB)),
              news_headlines |->
                  ListSection(LazySection(content,
                      AfterBoldLine(content, "News Headlines Analyzed"), TermC))]

\* "### Event \d+: (\w+)\n\n" at line i
EventHeadAt(content, i) ==
    /\ content[i].t = "hevent"
    /\ content[i].v # <<>>
    /\ \A k \in 1..Len(content[i].v) : content[i].v[k] \in WordChars
    /\ i + 2 <= Len(content)
    /\ IsBlank(content[i + 1])

\* "\n\n(?:###|\n##|\Z)" after line j
EventTerm(content, j) ==
    /\ j + 1 <= Len(content)
    /\ IsBlank(content[j + 1])
    /\ \/ j + 2 <= Len(content) /\ StartsHash3(content[j + 2])
       \/ j + 3 <= Len(content) /\ IsBlank(content[j + 2])
            /\ StartsHash2(content[j + 3])
       \/ j + 2 = Len(content) /\ IsBlank(content[j + 2])

\* the line after the last one a match consumed: the match takes the "###"
\* of line j+2, or the "##" of line j+3, with it
EventResume(content, j) ==
    IF j + 2 <= Len(content) /\ StartsHash3(content[j + 2]) THEN j + 3
    ELSE j + 4

\* re.findall(r'### Event \d+: (\w+)\n\n(.*?)\n\n(?:###|\n##|\Z)', content,
\* re.DOTALL) from line `from` on: the (type, body) pairs
RECURSIVE EventSections(_, _)
EventSections(content, from) ==
    LET ok(i) == /\ EventHeadAt(content, i)
                 /\ \E j \in (i + 2)..Len(content) : EventTerm(content, j)
        I == {i \in from..Len(content) : ok(i)}
    IN  IF from > Len(content) \/ I = {} THEN <<>>
        ELSE LET i == Min(I)
                 j == Min({k \in (i + 2)..Len(content) : EventTerm(content, k)})
             IN  << [type |-> content[i].v,
                     body |-> SubSeq(content, i + 2, j)] >>
                 \o EventSections(content, EventResume(content, j))

\* r'\*\*Description:\*\*\s*(.*?)\n' in an event body: a line end must follow
DescriptionOf(body) ==
    LET I == {i \in 1..(Len(body) - 1) :
                IsFieldLine(body[i]) /\ body[i].s = "Description"}
    IN  IF I = {} THEN <<>> ELSE body[Min(I)].v

\* one event of detect_events
EventOf(sec) ==
    LET impact == FieldCapture(sec.body, "Impact", CapWord)
        source == FieldCapture(sec.body, "Source", CapWord)
        verified == FieldCapture(sec.body, "Verified", CapWord)
    IN  [type |-> sec.type,
         description |-> DescriptionOf(sec.body),
         impact |-> IF impact # <<>> THEN impact ELSE <<"MEDIUM">>,
         source |-> IF source # <<>> THEN source ELSE <<"transcript">>,
         verified |-> IF verified # <<>>
                      THEN verified \in {<<"Yes">>, <<"yes">>, <<"YES">>}
                      ELSE TRUE]

\* an extractor whose missing event counts default to zero
EventCountDefaultZero(events) == 0

\* metadata.get('total_events', len(events)) and
\* metadata.get('verified_events', len(events)): the default
EventCountDefault(events) == Len(events)

detect_events(ticker, content) ==
    LET m == ExtractMetadata(content)
        md == m.md
        secs == EventSections(content, 1)
        events == [i \in 1..Len(secs) |-> EventOf(secs[i])]
    IN  IF ~m.ok THEN Raised
        ELSE [raised |-> FALSE,
              ticker |-> <<ticker>>,
              total_events |->
                  Get(md, "total_events", EventCountDefault(events)),
              verified_events |->
                  Get(md, "verified_events", EventCountDefault(events)),
              confidence |-> Get(md, "confidence", DefaultEventConfidence),
              events |-> events,
              tool_validations |->
                  ListSection(LazySection(content,
                      AfterBoldLine(content, "Tool Validations"), TermB))]

\* "#### title\n**Question:** q\n**Answer:** a\n**Confidence:** c%" at line i
InsightAt(lines, i) ==
    /\ i + 3 <= Len(lines)
    /\ lines[i].t = "h" /\ lines[i].lvl >= 4
    /\ lines[i + 1].t = "field" /\ lines[i + 1].s = "Question"
    /\ lines[i + 2].t = "field" /\ lines[i + 2].s = "Answer"
    /\ lines[i + 3].t = "field" /\ lines[i + 3].s = "Confidence"
    /\ CapNumPct(lines[i + 3].v) # <<>>

\* the insight blocks of the captured insights text; ok is FALSE when
\* float(confidence) raises
InsightBlocks(lines) ==
    LET I == {i \in 1..Len(lines) : InsightAt(lines, i)}
        at == SelectSeq([i \in 1..Len(lines) |-> i], LAMBDA i : i \in I)
    IN  [ok |-> \A i \in I : ParseFloat(CapNumPct(lines[i + 3].v)).ok,
         list |-> [k \in 1..Len(at) |->
                     [title |-> lines[at[k]].s,
                      question |-> lines[at[k] + 1].v,
                      answer |-> lines[at[k] + 2].v,
                      confidence |->
                          ParseFloat(CapNumPct(lines[at[k] + 3].v)).v]]]

predict_volatility(ticker, content) ==
    LET m == ExtractMetadata(content)
        md == m.md
        isec == LazySection(content,
                    AfterHeading(content, 3, "Transcript Insights"), TermB)
        ins == InsightBlocks(IF isec.found THEN StripBlank(isec.lines) ELSE <<>>)
    IN  IF ~m.ok \/ ~ins.ok THEN Raised
        ELSE [raised |-> FALSE,
              ticker |-> <<ticker>>,
              predicted_volatility |->
                  Get(md, "predicted_volatility", <<"medium">>),
              volatility_score |->
                  Get(md, "volatility_score", DefaultVolatilityScore),
              historical_volatility |->
                  Get(md, "historical_volatility", DefaultHistoricalVolatility),
              confidence |-> Get(md, "confidence", DefaultConfidence),
              key_drivers |->
                  ListSection(LazySection(content,
                      AfterHeading(content, 2, "Key Volatility Drivers"), TermA)),
              sentiment_impact |->
                  TextSection(LazySection(content,
                      AfterHeading(content, 2, "Sentiment Impact"), TermA)),
              event_impact |->
                  TextSection(LazySection(content,
                      AfterHeading(content, 2, "Event Impact"), TermA)),
              tool_validations |->
                  ListSection(LazySection(content,
                      AfterBoldLine(content, "Tool Validations"), TermD)),
              transcript_insights |-> ins.list]

-----------------------------------------------------------------------------
(* The results a stage can produce (models.py), drawn from small pools.    *)
(* pydantic checks the types only: no range or cross-field constraint.      *)

Tickers == {"GOOGL"}
Timestamp == "2026-11-01 20:00:00"

DriverPool == <<"growth", "margins", "guidance", "buybacks">>
HeadlinePool == <<"Shares jump on results", "Analysts lift targets",
                  "Cloud unit slows", "Regulators open probe">>
NotePool == <<"checked against filings", "checked against news",
              "checked against prices", "checked against peers">>

\* SentimentAnalysisResult
SentimentResults ==
    [overall_sentiment : {"positive", "very_negative"},
     sentiment_score : {(80 * Scale) \div 100, -((25 * Scale) \div 100),
                        (125 * Scale) \div 1000},
     market_sentiment : {<<"Analysts are upbeat">>},
     key_sentiment_drivers : Prefixes(DriverPool, MaxList),
     news_headlines : Prefixes(HeadlinePool, MaxList),
     confidence : {(90 * Scale) \div 100, 553456},
     tool_validations : Prefixes(NotePool, MaxList)]

\* SignificantEvent
Event(ty, d, m, v, src, imp) ==
    [event_type |-> ty, description |-> d, mentioned_in_call |-> m,
     verified |-> v, source |-> src, impact_assessment |-> imp]

EventPool ==
    << Event(<<"merger">>, "Acquired rival firm", TRUE, TRUE,
             <<"transcript">>, "high"),
       Event(<<"earnings_beat">>, "Beat consensus EPS", TRUE, FALSE,
             <<"8", "-", "K", " ", "filing">>, "medium"),
       Event(<<"guidance_raise">>, "Raised full year guidance", FALSE, TRUE,
             <<"both">>, "low"),
       Event(<<"product", " ", "launch">>, "New phone announced", TRUE, TRUE,
             <<"transcript">>, "high") >>

VerifiedIn(events) == Cardinality({i \in 1..Len(events) : events[i].verified})

\* SignificantEventDetectionResult: the counts are what the completion
\* says, which need not agree with the list
EventResults ==
    UNION {[events : {es},
            total_events_found : {Len(es), 3},
            verified_count : {VerifiedIn(es), 4},
            confidence : {(55 * Scale) \div 100, (90 * Scale) \div 100},
            tool_validations : Prefixes(NotePool, MaxList)]
           : es \in Prefixes(EventPool, MaxEvents)}

\* DEFAULT_ANALYSIS_QUESTIONS: focus item and question
Question(f, q) == [focus_item |-> f, question |-> q]
DEFAULT_ANALYSIS_QUESTIONS ==
    << Question("Dividends", "Did this company pay investors a dividend?"),
       Question("Revenue Growth", "What was the revenue growth rate?"),
       Question("Key Projects", "What are the key projects?"),
       Question("Challenges", "What challenges did the management discuss?"),
       Question("Outlook", "What guidance did the company provide?") >>

\* TranscriptAnalysisAnswer: what the completion answers to question q
Answer(q) ==
    [focus_item |-> q.focus_item, question |-> q.question,
     answer |-> "As stated in the call", confidence |-> (80 * Scale) \div 100]

\* VolatilityPredictionResult
VolatilityResults ==
    [predicted_volatility : {"high", "very_low"},
     volatility_score : {(65 * Scale) \div 100, 333333},
     transcript_insights :
         Prefixes([i \in 1..Len(DEFAULT_ANALYSIS_QUESTIONS) |->
                      Answer(DEFAULT_ANALYSIS_QUESTIONS[i])], MaxList),
     key_volatility_drivers : Prefixes(DriverPool, MaxList),
     sentiment_impact : {<<"Positive tone lowers risk">>},
     event_impact : {<<"The merger adds uncertainty">>},
     confidence : {(90 * Scale) \div 100, (55 * Scale) \div 100},
     historical_volatility : {0, 234500},
     tool_validations : Prefixes(NotePool, MaxList)]

-----------------------------------------------------------------------------
(* The self-model (models.get_default_self_model) and the coordinator's    *)
(* decision (models.MetacognitiveDecision)                                  *)

SentimentThreshold == (65 * Scale) \div 100
EventThreshold == (70 * Scale) \div 100
VolatilityThreshold == (60 * Scale) \div 100

get_default_self_model ==
    [system_name |-> "FinSight Agent",
     version |-> "1.0",
     mission |-> "Provide comprehensive, multi-agent financial analysis",
     agent_capabilities |->
        << [agent_name |-> "Sentiment Analysis Agent",
            confidence_threshold |-> SentimentThreshold],
           [agent_name |-> "Significant Event Detection Agent",
            confidence_threshold |-> EventThreshold],
           [agent_name |-> "Volatility Prediction Agent",
            confidence_threshold |-> VolatilityThreshold] >>,
     operating_boundaries |->
        << "NO personalized investment advice or stock recommendations",
           "NO guarantees about future stock performance",
           "All outputs are for educational and analytical purposes only",
           "Must disclose confidence levels and limitations" >>,
     active_guardrails |->
        << "Confidence threshold enforcement",
           "Source verification requirement",
           "Investment advice prohibition",
           "Transparent limitation disclosure" >>]

AgentNames == <<"sentiment_analysis", "event_detection", "volatility_prediction">>

\* a plan of all three agents, and a plan of the sentiment agent alone
Decisions ==
    {[user_intent |-> "Comprehensive analysis of the earnings call",
      analysis_plan |-> plan.steps,
      agents_to_invoke |-> plan.agents,
      confidence |-> (95 * Scale) \div 100,
      reasoning |-> "The query asks for all three analyses"] :
        plan \in {[steps |-> <<"1. Read the transcript", "Assess sentiment">>,
                   agents |-> AgentNames],
                  [steps |-> <<"Assess sentiment">>,
                   agents |-> <<"sentiment_analysis">>]}}

\* step.lstrip('0123456789. ')
LStripNumber(step) ==
    IF step = "1. Read the transcript" THEN "Read the transcript" ELSE step

-----------------------------------------------------------------------------
(* The final-report formatter: _generate_final_report.  st is the RunState, *)
(* a function on the keys that are set; a key that is not set is None.      *)

Has(st, key) == key \in DOMAIN st                       \* state.get(key)

NotAvailable(what) == Para(what)
SentimentNA == "*Sentiment analysis not available.*"
EventsNA == "*Event detection not available.*"
VolatilityNA == "*Volatility prediction not available.*"
NoViolations == "*All confidence thresholds met. No guardrail violations detected.*"

\* "- **Sentiment:** name (Score: s, Confidence: c)"
SummaryLine(lab, name, score, conf) ==
    BField(lab, name \o <<" (Score: ">> \o score \o <<", Confidence: ">>
                     \o conf \o <<")">>)

ExecutiveSummary(st) ==
    LET sent == Has(st, "sentiment_result")
        ev == Has(st, "event_detection_result")
        vol == Has(st, "volatility_result")
        zero == <<"0", "%">>
    IN  << H(2, "Executive Summary"), Blank,
           SummaryLine("Sentiment",
               IF sent THEN <<st.sentiment_result.overall_sentiment>>
                       ELSE <<"N", "/", "A">>,
               IF sent THEN FormatFixed2(st.sentiment_result.sentiment_score)
                       ELSE <<"0", ".", "0", "0">>,
               IF sent THEN FormatPercent2(st.sentiment_result.confidence)
                       ELSE zero),
           BField("Events Detected",
               FormatInt(IF ev THEN st.event_detection_result.total_events_found
                               ELSE 0)
               \o <<" (">>
               \o FormatInt(IF ev THEN st.event_detection_result.verified_count
                                  ELSE 0)
               \o <<" verified, Confidence: ">>
               \o (IF ev THEN FormatPercent2(st.event_detection_result.confidence)
                         ELSE zero)
               \o <<")">>),
           SummaryLine("Predicted Volatility",
               IF vol THEN <<st.volatility_result.predicted_volatility>>
                      ELSE <<"N", "/", "A">>,
               IF vol THEN FormatFixed2(st.volatility_result.volatility_score)
                      ELSE <<"0", ".", "0", "0">>,
               IF vol THEN FormatPercent2(st.volatility_result.confidence)
                      ELSE zero),
           BField("Historical Volatility",
               IF vol THEN FormatPercent2(st.volatility_result.historical_volatility)
                      ELSE zero) >>

\* a bold label on its own line, the list under it, and the line break the
\* next piece of the report starts with
BoldList(lab, items) ==
    << Field(lab, <<>>) >> \o [i \in 1..Len(items) |-> Bullet(items[i])]

OptionalBoldList(lab, items) ==
    IF items = <<>> THEN <<>> ELSE << Blank >> \o BoldList(lab, items)

CoordinatorSection(st) ==
    << H(2, "1. Coordinator's Metacognitive Analysis"), Blank >>
    \o (IF Has(st, "metacognitive_decision")
        THEN LET d == st.metacognitive_decision
             IN  << Field("User Intent", <<d.user_intent>>), Blank,
                    Field("Analysis Plan", <<>>) >>
                 \o [i \in 1..Len(d.analysis_plan) |->
                        Numbered(i, LStripNumber(d.analysis_plan[i]))]
                 \o << Blank,
                       Field("Agents Invoked", d.agents_to_invoke),
                       Field("Coordinator Confidence",
                             FormatPercent2(d.confidence)),
                       Blank,
                       Field("Reasoning", <<d.reasoning>>) >>
        ELSE <<>>)

SentimentSection(st) ==
    << H(2, "2. Sentiment Analysis"), Blank >>
    \o (IF Has(st, "sentiment_result")
        THEN LET r == st.sentiment_result
             IN  << Field("Overall Sentiment", <<r.overall_sentiment, TwoSpaces>>),
                    Field("Sentiment Score",
                          FormatFixed2(r.sentiment_score)
                              \o <<RangeSigned, TwoSpaces>>),
                    Field("Confidence", FormatPercent2(r.confidence)),
                    Blank,
                    Field("Market Sentiment Summary", <<>>) >>
                 \o TextLines(r.market_sentiment)
                 \o << Blank >>
                 \o BoldList("Key Sentiment Drivers", r.key_sentiment_drivers)
                 \o OptionalBoldList("News Headlines Analyzed", r.news_headlines)
                 \o OptionalBoldList("Tool Validations", r.tool_validations)
        ELSE << NotAvailable(SentimentNA) >>)

FinalEventLines(i, e) ==
    << Blank, HEvent(i, e.event_type), Blank,
       BField("Description", <<e.description>>),
       BField("Mentioned in Call", YesNo(e.mentioned_in_call)),
       BField("Verified", YesNo(e.verified)),
       BField("Source", e.source),
       BField("Impact Assessment", <<Upper(e.impact_assessment)>>) >>

EventSection(st) ==
    << H(2, "3. Significant Event Detection"), Blank >>
    \o (IF Has(st, "event_detection_result")
        THEN LET r == st.event_detection_result
             IN  << Field("Total Events Found",
                          FormatInt(r.total_events_found) \o <<TwoSpaces>>),
                    Field("Verified Events",
                          FormatInt(r.verified_count) \o <<TwoSpaces>>),
                    Field("Confidence", FormatPercent2(r.confidence)),
                    Blank,
                    Field("Detected Events", <<>>) >>
                 \o Flatten([i \in 1..Len(r.events) |->
                                FinalEventLines(i, r.events[i])])
                 \o OptionalBoldList("Tool Validations", r.tool_validations)
        ELSE << NotAvailable(EventsNA) >>)

FinalInsightLines(a) ==
    << H(4, a.focus_item),
       Field("Question", <<a.question, TwoSpaces>>),
       Field("Answer", <<a.answer, TwoSpaces>>),
       Field("Confidence", FormatPercent2(a.confidence)),
       Blank >>

VolatilitySection(st) ==
    << H(2, "4. Volatility Prediction"), Blank >>
    \o (IF Has(st, "volatility_result")
        THEN LET r == st.volatility_result
             IN  << Field("Predicted Volatility",
                          <<r.predicted_volatility, TwoSpaces>>),
                    Field("Volatility Score",
                          FormatFixed2(r.volatility_score)
                              \o <<RangeUnit, TwoSpaces>>),
                    Field("Historical Volatility",
                          FormatPercent2(r.historical_volatility)
                              \o <<TwoSpaces>>),
                    Field("Confidence", FormatPercent2(r.confidence)),
                    Blank >>
                 \o BoldList("Key Volatility Drivers", r.key_volatility_drivers)
                 \o << Blank, Field("Sentiment Impact", <<>>) >>
                 \o TextLines(r.sentiment_impact)
                 \o << Blank, Field("Event Impact", <<>>) >>
                 \o TextLines(r.event_impact)
                 \o OptionalBoldList("Tool Validations", r.tool_validations)
                 \o (IF r.transcript_insights = <<>> THEN <<>>
                     ELSE << Blank, H(3, "Transcript Insights"), Blank >>
                          \o Flatten([i \in 1..Len(r.transcript_insights) |->
                                FinalInsightLines(r.transcript_insights[i])]))
        ELSE << NotAvailable(VolatilityNA) >>)

GuardrailSection(st) ==
    LET guardrails == IF Has(st, "guardrails_applied")
                      THEN st.guardrails_applied ELSE <<>>
        sm == st.self_model
    IN  << H(2, "5. Guardrails and System Boundaries"), Blank,
           Field("Guardrail Checks Performed", FormatInt(Len(guardrails))),
           Blank >>
        \o (IF guardrails # <<>>
            THEN Flatten([i \in 1..Len(guardrails) |->
                    << Bullet(guardrails[i].guardrail_type),
                       Bullet(guardrails[i].description),
                       Bullet(guardrails[i].action_taken) >>])
            ELSE << Para(NoViolations) >>)
        \o << Blank >> \o BoldList("Active Guardrails", sm.active_guardrails)
        \o << Blank >> \o BoldList("Operating Boundaries", sm.operating_boundaries)

PassMark == "PASS_CHECKMARK"      \* the cell "(check mark) Pass"
LowMark == "LOW_WARNING"          \* the cell "(warning sign) Low"

\* a status cell that does not look at the confidence
GuardrailStatusAlwaysPass(confidence, threshold) == PassMark

\* "Pass" if confidence >= threshold else "Low"
GuardrailStatus(confidence, threshold) ==
    IF confidence >= threshold THEN PassMark ELSE LowMark

\* | agent | confidence | threshold | status |
TableRow(agent, confidence, threshold) ==
    L("row", 0, 0, agent,
      FormatPercent2(confidence) \o <<"|">> \o FormatPercent2(threshold)
          \o <<"|", GuardrailStatus(confidence, threshold)>>)

ConfidenceTable(st) ==
    LET caps == st.self_model.agent_capabilities
    IN  << H(2, "6. System Confidence Summary"), Blank,
           L("row", 0, 0, "Agent", <<"Confidence", "|", "Threshold", "|", "Status">>),
           L("row", 0, 0, "-------", <<"-----------", "|", "-----------", "|", "--------">>) >>
        \o (IF Has(st, "sentiment_result")
            THEN << TableRow("Sentiment Analysis", st.sentiment_result.confidence,
                             caps[1].confidence_threshold) >>
            ELSE <<>>)
        \o (IF Has(st, "event_detection_result")
            THEN << TableRow("Event Detection", st.event_detection_result.confidence,
                             caps[2].confidence_threshold) >>
            ELSE <<>>)
        \o (IF Has(st, "volatility_result")
            THEN << TableRow("Volatility Prediction", st.volatility_result.confidence,
                             caps[3].confidence_threshold) >>
            ELSE <<>>)

Disclaimers(st) ==
    << H(2, "Disclaimers"), Blank,
       Field("Mission", <<st.self_model.mission>>), Blank,
       Para("This analysis is for **informational and educational purposes only**."),
       Blank,
       Field("Generated by", <<st.self_model.system_name, st.self_model.version>>),
       Blank >>

Break == << Blank, Rule, Blank >>                      \* "\n---\n\n"

GenerateFinalReport(st, ts) ==
    << H(1, "FinSight Multi-Agent Analysis Report"), Blank,
       Field("Generated", <<ts, TwoSpaces>>),
       Field("Company", <<st.company_ticker, TwoSpaces>>),
       Field("System Version", <<st.self_model.version>>) >>
    \o Break \o ExecutiveSummary(st)
    \o Break \o CoordinatorSection(st)
    \o Break \o SentimentSection(st)
    \o Break \o EventSection(st)
    \o Break \o VolatilitySection(st)
    \o Break \o GuardrailSection(st)
    \o Break \o ConfidenceTable(st)
    \o Break \o Disclaimers(st)

-----------------------------------------------------------------------------
(* The stage agents: src/src/agents.  A completion (the structured-output   *)
(* call) either returns a result of the declared shape or fails:            *)
(* [ok |-> TRUE, result |-> r] or [ok |-> FALSE, cause |-> c].              *)

Causes == {"completion failed"}

Succeeds(r) == [ok |-> TRUE, result |-> r]
Fails(c) == [ok |-> FALSE, cause |-> c]
Outcomes(results) == {Succeeds(r) : r \in results} \cup {Fails(c) : c \in Causes}

\* f"{prefix}: {str(e)}"
ErrorString(prefix, cause) == <<prefix, cause>>

\* state.get('errors', []) + [f"{prefix}: {str(e)}"]
ErrorUpdate(st, prefix, cause) ==
    [errors |-> (IF Has(st, "errors") THEN st.errors ELSE <<>>)
                    \o <<ErrorString(prefix, cause)>>]

\* a process() without the except clause: the failure reaches the node
ProcessRaisesUnhandled(outcome) == ~outcome.ok

\* the except clause of every process(): the failure is turned into the
\* returned update, nothing is raised to the node
ProcessRaises(outcome) == FALSE

\* CoordinatorAgent.process
CoordinatorProcess(st, outcome) ==
    IF outcome.ok
    THEN [metacognitive_decision |-> outcome.result,
          guardrails_applied |-> IF Has(st, "guardrails_applied")
                                 THEN st.guardrails_applied ELSE <<>>]
    ELSE ErrorUpdate(st, "Coordinator error", outcome.cause)

\* A call of a validation provider (tools.py) ends in one of three ways:
\* it returns ("none"), it fails inside the tool, whose except clause
\* returns the tool's empty value ("in_tool"), or the failure reaches the
\* agent's helper ("raised").
ProviderFailures == {"in_tool", "raised"}

\* a helper without its except clause: the failure leaves process()
ProviderAbortsUnhandled(call) == call.failure = "raised"

\* the except clause of _gather_news_context, _validate_with_sec_filings and
\* _validate_with_market_data: nothing leaves the helper
ProviderAborts(call) == FALSE

\* news_search_tool.get_sentiment_news(ticker)
NewsCalls ==
    {[failure |-> "none", results |-> <<>>],
     [failure |-> "none", results |-> Prefix(HeadlinePool, 2)],
     [failure |-> "in_tool", results |-> <<>>],
     [failure |-> "raised", results |-> <<>>]}

\* _gather_news_context: the titles of the first 5 results, [] when the
\* search returns nothing or fails
gather_news_context(call) ==
    IF call.failure = "raised" THEN <<>> ELSE Prefix(call.results, 5)

NewsOutcomes == {gather_news_context(call) : call \in NewsCalls}

NewsNote(n) ==
    IF n = 1 THEN "Validated sentiment using 1 news articles from Tavily"
    ELSE "Validated sentiment using several news articles from Tavily"

\* the lines of SentimentAnalysisAgent.process after the completion
SentimentResultOf(r, news_headlines) ==
    IF news_headlines # <<>>
    THEN [r EXCEPT !.news_headlines = news_headlines,
                   !.tool_validations = @ \o <<NewsNote(Len(news_headlines))>>]
    ELSE r

\* a process() that returns the whole state with its result added
SentimentProcessWholeState(st, news_headlines, outcome) ==
    IF outcome.ok
    THEN [k \in DOMAIN st \cup {"sentiment_result"} |->
             IF k = "sentiment_result" THEN outcome.result ELSE st[k]]
    ELSE [k \in DOMAIN st |->
             IF k = "errors"
             THEN st[k] \o <<ErrorString("Sentiment analysis error", outcome.cause)>>
             ELSE st[k]]

\* a process() that enforces its threshold: a result below it is returned
\* together with a guardrail violation
SentimentProcessEnforcing(st, news_headlines, outcome) ==
    IF outcome.ok
    THEN IF outcome.result.confidence
               < st.self_model.agent_capabilities[1].confidence_threshold
         THEN [sentiment_result |->
                   SentimentResultOf(outcome.result, news_headlines),
               guardrails_applied |->
                   st.guardrails_applied \o
                   <<[agent |-> "Sentiment Analysis Agent",
                      guardrail_type |-> "confidence_threshold",
                      description |-> "Confidence below threshold",
                      action_taken |-> "flagged"]>>]
         ELSE [sentiment_result |->
                   SentimentResultOf(outcome.result, news_headlines)]
    ELSE ErrorUpdate(st, "Sentiment analysis error", outcome.cause)

\* SentimentAnalysisAgent.process
SentimentProcess(st, news_headlines, outcome) ==
    IF outcome.ok
    THEN [sentiment_result |-> SentimentResultOf(outcome.result, news_headlines)]
    ELSE ErrorUpdate(st, "Sentiment analysis error", outcome.cause)

\* sec_filing_tool.download_recent_filings(ticker, ["8-K", "10-Q"], 3): the
\* number of filing types downloaded; a download that fails inside the tool
\* is returned as a result with status "error: ..."
SecCalls ==
    {[failure |-> "none", successful |-> 2],
     [failure |-> "none", successful |-> 0],
     [failure |-> "in_tool", successful |-> 0],
     [failure |-> "raised", successful |-> 0]}

\* _validate_with_sec_filings: filings_checked is FALSE when the download
\* raises; the notes go to the prompt only
validate_with_sec_filings(call) ==
    IF call.failure = "raised"
    THEN [filings_checked |-> FALSE,
          filing_results |-> "{}",
          validation_notes |-> <<"SEC filing error: connection refused">>]
    ELSE [filings_checked |-> TRUE,
          filing_results |->
              IF call.failure = "in_tool"
              THEN "{'8-K': {'downloaded': 0, 'status': 'error: refused'}}"
              ELSE "{'8-K': {'downloaded': n, 'status': 'success'}}",
          validation_notes |->
              IF call.successful > 0
              THEN <<"Downloaded 2 SEC filing types for cross-reference">>
              ELSE <<"No recent SEC filings available for validation">>]

SecOutcomes == {validate_with_sec_filings(call) : call \in SecCalls}

\* f"Validated events using SEC EDGAR: {sec_validation['filing_results']}"
SecNote == "Validated events using SEC EDGAR: filing results"
SecErrorNote == "Validated events using SEC EDGAR: filing results with status error"
SecNoteOf(sec) ==
    IF sec.filing_results = "{'8-K': {'downloaded': 0, 'status': 'error: refused'}}"
    THEN SecErrorNote ELSE SecNote

EventResultOf(r, sec) ==
    IF sec.filings_checked
    THEN [r EXCEPT !.tool_validations = @ \o <<SecNoteOf(sec)>>]
    ELSE r

\* EventDetectionAgent.process
EventProcess(st, sec, outcome) ==
    IF outcome.ok
    THEN [event_detection_result |-> EventResultOf(outcome.result, sec)]
    ELSE ErrorUpdate(st, "Event detection error", outcome.cause)

\* market_data_tool.get_historical_volatility / get_price_movement /
\* get_stock_info: a failure inside the tool returns 0.0 and {}
MarketCalls ==
    {[failure |-> "none", hist_vol |-> 234500, has_prices |-> TRUE],
     [failure |-> "none", hist_vol |-> 0, has_prices |-> FALSE],
     [failure |-> "in_tool", hist_vol |-> 0, has_prices |-> FALSE],
     [failure |-> "raised", hist_vol |-> 0, has_prices |-> FALSE]}

\* _validate_with_market_data: the volatility read, and the notes
validate_with_market_data(call) ==
    IF call.failure = "raised"
    THEN [historical_volatility |-> 0,
          validation_notes |-> <<"Market data error: no data">>]
    ELSE [historical_volatility |-> call.hist_vol,
          validation_notes |->
              IF call.has_prices
              THEN <<"1-month price change: 4.20%, volatility: 23.45%">>
              ELSE <<>>]

MarketOutcomes == {validate_with_market_data(call) : call \in MarketCalls}

\* f"Validated with yfinance: {', '.join(validation_notes)}"
MarketNote == "Validated with yfinance: market notes"
MarketErrorNote == "Validated with yfinance: Market data error: no data"
MarketNoteOf(notes) ==
    IF notes = <<"Market data error: no data">> THEN MarketErrorNote ELSE MarketNote

\* questions[:5]
QuestionLimit == 5

\* for q in questions[:5]: the questions a completion is issued for
QuestionsAsked(questions) == Prefix(questions, QuestionLimit)

\* a loop that gives up at the first question whose completion fails
AnswerQuestionsUntilFailure(questions, answered) ==
    LET first == QuestionsAsked(questions)
        stop == {i \in 1..Len(first) : i \notin answered}
        n == IF stop = {} THEN Len(first) ELSE Min(stop) - 1
    IN  [k \in 1..n |-> Answer(first[k])]

\* _answer_analysis_questions: one completion per question of the first
\* five; answered holds the positions whose completion succeeded
AnswerQuestions(questions, answered) ==
    LET first == QuestionsAsked(questions)
        idx == SelectSeq([i \in 1..Len(first) |-> i], LAMBDA i : i \in answered)
    IN  [k \in 1..Len(idx) |-> Answer(first[idx[k]])]

VolatilityResultOf(r, market, insights) ==
    LET r1 == [r EXCEPT !.transcript_insights = insights,
                        !.historical_volatility = market.historical_volatility]
    IN  IF market.validation_notes # <<>>
        THEN [r1 EXCEPT !.tool_validations =
                            @ \o <<MarketNoteOf(market.validation_notes)>>]
        ELSE r1

\* VolatilityPredictionAgent.process
VolatilityProcess(st, market, answered, outcome) ==
    LET questions == IF Has(st, "analysis_questions")
                     THEN st.analysis_questions ELSE <<>>
        insights == AnswerQuestions(questions, answered)
    IN  IF outcome.ok
        THEN [volatility_result |->
                  VolatilityResultOf(outcome.result, market, insights)]
        ELSE ErrorUpdate(st, "Volatility prediction error", outcome.cause)

-----------------------------------------------------------------------------
(* The input document: tools.TranscriptReaderTool.read_transcript *)

Paths == {"data/input/transcript.txt"}

\* a text is the sequence of its tokens; only its first word is looked at
Files ==
    {[exists |-> TRUE, readable |-> TRUE,
      content |-> <<"Good", " morning and welcome to the call">>],
     [exists |-> TRUE, readable |-> TRUE,
      content |-> <<"Error", " rates fell this quarter, the CFO said">>],
     [exists |-> TRUE, readable |-> FALSE, content |-> <<>>],
     [exists |-> FALSE, readable |-> FALSE, content |-> <<>>]}

read_transcript(file_path, file) ==
    IF ~file.exists
    THEN <<"Error", ": Transcript file not found at ", file_path>>
    ELSE IF ~file.readable
    THEN <<"Error", " reading transcript: ", "cannot decode">>
    ELSE file.content

\* content.startswith("Error")
StartsWithError(content) == content # <<>> /\ content[1] = "Error"

-----------------------------------------------------------------------------
(* The nodes of the workflow: orchestrator.py.  Each returns the update     *)
(* that LangGraph merges into the state, and the reports it saved.          *)

\* the channels of GraphState have no reducer: a key of the update replaces
\* the value of the state, a key the update lacks keeps it
Merge(st, upd) == upd @@ st

\* a node that never takes the "if result.get(key)" branch
ProducedNothing(upd, key) == FALSE

\* if result.get(key):
ProducedResult(upd, key) == key \in DOMAIN upd

Artifact(stage, ticker, ts, content) ==
    [stage |-> stage, ticker |-> ticker, ts |-> ts, content |-> content]

\* _save_agent_report, under "if result.get(key)"
SaveAgentReport(st, upd, key, agent_name) ==
    IF ProducedResult(upd, key)
    THEN << Artifact(agent_name, st.company_ticker, Timestamp,
                     FormatAgentReport(agent_name, st.company_ticker,
                                       Timestamp, upd[key])) >>
    ELSE <<>>

\* a node that empties the content and keeps the message to itself
LoadTranscriptUpdateUnrecorded(st, file) ==
    LET content == read_transcript(st.transcript_path, file)
    IN  IF StartsWithError(content)
        THEN [transcript_content |-> <<>>]
        ELSE [transcript_content |-> content]

\* _load_transcript_node
LoadTranscriptUpdate(st, file) ==
    LET content == read_transcript(st.transcript_path, file)
    IN  IF StartsWithError(content)
        THEN [transcript_content |-> <<>>, errors |-> <<content>>]
        ELSE [transcript_content |-> content]

\* _synthesize_report_node
SynthesizeUpdate(st) == [final_report |-> GenerateFinalReport(st, Timestamp)]

\* a workflow with a conditional edge that skips event detection
EdgeSkipping(node) ==
    CASE node = "coordinator" -> "load_transcript"
      [] node = "load_transcript" -> "sentiment_analysis"
      [] node = "sentiment_analysis" -> "volatility_prediction"
      [] node = "event_detection" -> "volatility_prediction"
      [] node = "volatility_prediction" -> "synthesize_report"
      [] node = "synthesize_report" -> "END"

\* a workflow whose edges follow the coordinator's plan: an agent the
\* decision does not list is passed over
EdgeByPlan(node) ==
    LET listed(n) == \/ ~Has(state, "metacognitive_decision")
                     \/ \E i \in DOMAIN state.metacognitive_decision.agents_to_invoke :
                           state.metacognitive_decision.agents_to_invoke[i] = n
    IN  CASE node = "coordinator" -> "load_transcript"
          [] node = "load_transcript" -> "sentiment_analysis"
          [] node = "sentiment_analysis" ->
                IF listed("event_detection") THEN "event_detection"
                ELSE IF listed("volatility_prediction") THEN "volatility_prediction"
                ELSE "synthesize_report"
          [] node = "event_detection" ->
                IF listed("volatility_prediction") THEN "volatility_prediction"
                ELSE "synthesize_report"
          [] node = "volatility_prediction" -> "synthesize_report"
          [] node = "synthesize_report" -> "END"

\* _build_workflow: the entry point and the edges
EntryPoint == "coordinator"
Edge(node) ==
    CASE node = "coordinator" -> "load_transcript"
      [] node = "load_transcript" -> "sentiment_analysis"
      [] node = "sentiment_analysis" -> "event_detection"
      [] node = "event_detection" -> "volatility_prediction"
      [] node = "volatility_prediction" -> "synthesize_report"
      [] node = "synthesize_report" -> "END"

\* run_analysis: initial_state
DefaultQuery == "Provide a comprehensive analysis of the earnings call"
Queries == {DefaultQuery}

InitialState(transcript_path, ticker, user_query) ==
    [user_query |-> user_query,
     company_ticker |-> ticker,
     transcript_path |-> transcript_path,
     analysis_questions |-> DEFAULT_ANALYSIS_QUESTIONS,
     self_model |-> get_default_self_model,
     guardrails_applied |-> <<>>,
     errors |-> <<>>]

-----------------------------------------------------------------------------
(* The run: OrchestrationEngine.run_analysis and the nodes it invokes *)

\* what the completions of one run may return
SentimentCompletions ==
    {r \in SentimentResults :
        /\ r.overall_sentiment = "positive"
        /\ r.sentiment_score = (80 * Scale) \div 100
        /\ r.key_sentiment_drivers = Prefix(DriverPool, 1)
        /\ r.news_headlines = <<>>
        /\ r.tool_validations = <<>>}

EventCompletions ==
    {r \in EventResults :
        /\ r.events \in {<<>>, Prefix(EventPool, MaxEvents)}
        /\ r.total_events_found = Len(r.events)
        /\ r.verified_count = VerifiedIn(r.events)
        /\ r.confidence = (IF r.events = <<>> THEN (55 * Scale) \div 100
                                               ELSE (90 * Scale) \div 100)
        /\ r.tool_validations = <<>>}

VolatilityCompletions ==
    {r \in VolatilityResults :
        /\ r.predicted_volatility = "high"
        /\ r.volatility_score = (65 * Scale) \div 100
        /\ r.transcript_insights = <<>>
        /\ r.key_volatility_drivers = Prefix(DriverPool, 1)
        /\ r.confidence = (90 * Scale) \div 100
        /\ r.historical_volatility = 0
        /\ r.tool_validations = <<>>}

\* which of the question completions succeed
AnsweredChoices == {1..QuestionLimit, {2, 4}, {}}

EmptyState == [k \in {} |-> <<>>]

\* the runs that share the output directory, and the directory when empty
RunIds == {1, 2}
NotStarted == [ticker |-> "", at |-> 0]
NoFiles == [n \in {} |-> <<>>]

\* no command: the orchestrator is used as a library, its output directory
\* can be written
NoCommand == [pc |-> "off", out |-> "writable"]

ErrorsOf(st) == IF Has(st, "errors") THEN st.errors ELSE <<>>

\* history entry of one merged update
LogEntry(node, st, upd, failed, saved) ==
    [node |-> node, keys |-> DOMAIN upd, had |-> DOMAIN st,
     before |-> ErrorsOf(st), after |-> ErrorsOf(upd @@ st),
     failed |-> failed, saved |-> Len(saved)]

Invoked(node) == [e |-> "invoke", what |-> node]
Written(a) == [e |-> "write", what |-> a.stage]

\* a node that returns its result and leaves the report for later
NodeEventsDeferred(node, saved) == <<Invoked(node)>>

\* what a node does, in order: it is invoked, calls process(), and writes
\* the report of the result before it returns
NodeEvents(node, saved) ==
    <<Invoked(node)>> \o [i \in DOMAIN saved |-> Written(saved[i])]

\* open(filepath, 'w') raises when the output directory cannot be written
WriteRaises(saved) == saved # <<>> /\ main.out = "unwritable"

\* one node of the graph: invoke it, merge its update, follow its edge; an
\* exception leaves the graph and run_analysis re-raises it
Step(node, upd, failed, saved, raises) ==
    /\ pc = node
    /\ invoked' = Append(invoked, node)
    /\ UNCHANGED main
    /\ IF raises \/ WriteRaises(saved)
       THEN /\ pc' = "Raised"
            /\ trace' = Append(trace, Invoked(node))
            /\ UNCHANGED <<state, log, artifacts>>
       ELSE /\ pc' = Edge(node)
            /\ state' = Merge(state, upd)
            /\ log' = Append(log, LogEntry(node, state, upd, failed, saved))
            /\ artifacts' = artifacts \o saved
            /\ trace' = trace \o NodeEvents(node, saved)
    /\ UNCHANGED <<apiVars, agentCall, diskVars>>

Init ==
    /\ pc = "idle"
    /\ state = EmptyState
    /\ invoked = <<>>
    /\ log = <<>>
    /\ artifacts = <<>>
    /\ trace = <<>>
    /\ main = NoCommand
    /\ apiPhase = "idle"
    /\ apiFile = <<>>
    /\ apiSource = <<>>
    /\ apiEdit = <<>>
    /\ apiOut = <<>>
    /\ agentCall = <<>>
    /\ clock = 0
    /\ runs = [r \in RunIds |-> NotStarted]
    /\ disk = NoFiles

\* run_analysis, up to workflow.invoke(initial_state)
StartRun(transcript_path, ticker, user_query) ==
    /\ pc = "idle"
    /\ state' = InitialState(transcript_path, ticker, user_query)
    /\ pc' = EntryPoint
    /\ UNCHANGED <<invoked, log, artifacts, trace>>
    /\ UNCHANGED <<apiVars, agentCall, diskVars>>

\* run_analysis called by a program other than main.py
RunAnalysis ==
    /\ main = NoCommand
    /\ \E transcript_path \in Paths, ticker \in Tickers, user_query \in Queries :
          StartRun(transcript_path, ticker, user_query)
    /\ UNCHANGED main

\* _coordinator_node
CoordinatorNode ==
    \E outcome \in Outcomes(Decisions) :
        Step("coordinator", CoordinatorProcess(state, outcome),
             ~outcome.ok, <<>>, ProcessRaises(outcome))

\* _load_transcript_node
LoadTranscriptNode ==
    \E file \in Files :
        LET upd == LoadTranscriptUpdate(state, file)
            content == read_transcript(state.transcript_path, file)
        IN  Step("load_transcript", upd, StartsWithError(content), <<>>, FALSE)

\* _sentiment_node
SentimentNode ==
    \E news \in NewsOutcomes, outcome \in Outcomes(SentimentCompletions) :
        LET upd == SentimentProcess(state, news, outcome)
        IN  Step("sentiment_analysis", upd, ~outcome.ok,
                 SaveAgentReport(state, upd, "sentiment_result", "sentiment"),
                 ProcessRaises(outcome))

\* _event_detection_node
EventDetectionNode ==
    \E sec \in SecOutcomes, outcome \in Outcomes(EventCompletions) :
        LET upd == EventProcess(state, sec, outcome)
        IN  Step("event_detection", upd, ~outcome.ok,
                 SaveAgentReport(state, upd, "event_detection_result",
                                 "event_detection"),
                 ProcessRaises(outcome))

\* _volatility_prediction_node
VolatilityPredictionNode ==
    \E market \in MarketOutcomes, answered \in AnsweredChoices,
       outcome \in Outcomes(VolatilityCompletions) :
        LET upd == VolatilityProcess(state, market, answered, outcome)
        IN  Step("volatility_prediction", upd, ~outcome.ok,
                 SaveAgentReport(state, upd, "volatility_result", "volatility"),
                 ProcessRaises(outcome))

\* _synthesize_report_node
SynthesizeReportNode ==
    Step("synthesize_report", SynthesizeUpdate(state), FALSE, <<>>, FALSE)

\* run_analysis, after workflow.invoke returns: the final report is written
\* "if result.get('final_report')"
SaveFinalReport ==
    /\ pc = "END"
    /\ LET saved == IF Has(state, "final_report") /\ state.final_report # <<>>
                    THEN << Artifact("final_report", state.company_ticker,
                                     Timestamp, state.final_report) >>
                    ELSE <<>>
       IN  IF WriteRaises(saved)
           THEN pc' = "Raised" /\ UNCHANGED <<artifacts, trace>>
           ELSE /\ artifacts' = artifacts \o saved
                /\ trace' = trace \o [i \in DOMAIN saved |-> Written(saved[i])]
                /\ pc' = "Done"
    /\ UNCHANGED <<state, invoked, log, main>>
    /\ UNCHANGED <<apiVars, agentCall, diskVars>>

Next ==
    \/ RunAnalysis
    \/ CoordinatorNode
    \/ LoadTranscriptNode
    \/ SentimentNode
    \/ EventDetectionNode
    \/ VolatilityPredictionNode
    \/ SynthesizeReportNode
    \/ SaveFinalReport

Spec == Init /\ [][Next]_vars

\* run_analysis runs to its end: no step of it waits for anything but the
\* calls it makes, and each call returns or raises
LiveSpec == Spec /\ WF_vars(Next)

-----------------------------------------------------------------------------
(* Properties of the run *)

NodeOrder ==
    << "coordinator", "load_transcript", "sentiment_analysis",
       "event_detection", "volatility_prediction", "synthesize_report" >>

\* the stages that make a completion call
CompletionNodes ==
    {"coordinator", "sentiment_analysis", "event_detection",
     "volatility_prediction"}

\* the stages whose report _save_agent_report writes
AnalyticNodes == {"sentiment_analysis", "event_detection", "volatility_prediction"}

ResultKeyOf ==
    [coordinator |-> "metacognitive_decision",
     sentiment_analysis |-> "sentiment_result",
     event_detection |-> "event_detection_result",
     volatility_prediction |-> "volatility_result",
     synthesize_report |-> "final_report"]

ResultKeys == {ResultKeyOf[n] : n \in DOMAIN ResultKeyOf}

\* the agent_name each node passes to _save_agent_report
ReportNameOf ==
    [sentiment_analysis |-> "sentiment",
     event_detection |-> "event_detection",
     volatility_prediction |-> "volatility"]

ReportNames == {ReportNameOf[n] : n \in AnalyticNodes}

ErrorPrefixOf ==
    [coordinator |-> "Coordinator error",
     sentiment_analysis |-> "Sentiment analysis error",
     event_detection |-> "Event detection error",
     volatility_prediction |-> "Volatility prediction error"]

FailedNodes == {log[i].node : i \in {j \in DOMAIN log : log[j].failed}}
CompletedNodes == {log[i].node : i \in {j \in DOMAIN log : ~log[j].failed}}

ArtifactCount(stage) ==
    Cardinality({i \in DOMAIN artifacts : artifacts[i].stage = stage})

FinalPersisted ==
    /\ Has(state, "final_report")
    /\ \E i \in DOMAIN artifacts :
          /\ artifacts[i].stage = "final_report"
          /\ artifacts[i].content = state.final_report

\* the lines of the final report under the "## title" heading, up to the
\* rule that closes the section
SectionBody(report, title) ==
    LET I == {i \in DOMAIN report : report[i] = H(2, title)}
    IN  IF I = {} THEN <<>>
        ELSE LET i == Min(I)
                 J == {j \in (i + 1)..Len(report) : report[j] = Rule}
             IN  SubSeq(report, i + 1, IF J = {} THEN Len(report) ELSE Min(J) - 1)

Contains(lines, line) == \E i \in DOMAIN lines : lines[i] = line
HasField(lines, lab) ==
    \E i \in DOMAIN lines : lines[i].t = "field" /\ lines[i].s = lab

\* C1: once a run has started it never raises, and it leads to Done with the
\* final report persisted, whichever of the plan, sentiment, events and
\* volatility completions fail (all of them included).
C1_RunReachesDone ==
    /\ [](pc # "Raised")
    /\ (pc # "idle") ~> (pc = "Done" /\ FinalPersisted)

C1_AllFailedDone ==
    /\ pc = "Done"
    /\ FinalPersisted
    /\ CompletionNodes \subseteq FailedNodes

\* C2: the nodes are invoked in the fixed order coordinator, load_transcript,
\* sentiment_analysis, event_detection, volatility_prediction,
\* synthesize_report, each once, none skipped, retried or reordered whatever
\* the earlier outcomes; Done is entered only after synthesize_report.
C2_FixedOrder ==
    /\ IsPrefix(invoked, NodeOrder)
    /\ pc \in {"END", "Done"} => invoked = NodeOrder
    /\ pc \notin {"idle", "END", "Done"} =>
          /\ Len(invoked) < Len(NodeOrder)
          /\ pc = NodeOrder[Len(invoked) + 1]

C2_DoneAfterFailures ==
    /\ pc = "Done"
    /\ invoked = NodeOrder
    /\ {"coordinator", "sentiment_analysis"} \subseteq FailedNodes

\* C3: at every merge of a node's update the errors list after the merge has
\* the errors list before the merge as a prefix.
C3_ErrorsOnlyGrow ==
    \A i \in DOMAIN log : IsPrefix(log[i].before, log[i].after)

\* the nodes that failed, in the order they ran, each with the error entry
\* its update ended with
ErrorsExpected ==
    LET F == SelectSeq(log, LAMBDA e : e.failed)
    IN  [k \in DOMAIN F |-> F[k].after[Len(F[k].after)]]

\* C4: a failed completion appends exactly one error string naming its stage
\* and leaves the stage's result key unset; at Done errors holds one entry
\* per failed stage, in stage order; when only event detection fails, errors
\* is the single "Event detection error" entry, the event section of the
\* final report reads not available and the sentiment and volatility
\* sections are populated.
C4_OneErrorPerFailedStage ==
    /\ \A i \in DOMAIN log :
          (log[i].failed /\ log[i].node \in CompletionNodes) =>
             /\ Len(log[i].after) = Len(log[i].before) + 1
             /\ IsPrefix(log[i].before, log[i].after)
             /\ log[i].after[Len(log[i].after)][1] = ErrorPrefixOf[log[i].node]
             /\ ~Has(state, ResultKeyOf[log[i].node])
    /\ pc = "Done" => state.errors = ErrorsExpected
    /\ (pc = "Done" /\ FailedNodes = {"event_detection"}) =>
          /\ Len(state.errors) = 1
          /\ state.errors[1][1] = "Event detection error"
          /\ Contains(SectionBody(state.final_report,
                                  "3. Significant Event Detection"),
                      NotAvailable(EventsNA))
          /\ HasField(SectionBody(state.final_report, "2. Sentiment Analysis"),
                      "Overall Sentiment")
          /\ HasField(SectionBody(state.final_report, "4. Volatility Prediction"),
                      "Predicted Volatility")

\* C9: a stage-result key is written only by its own node and at most once
\* in a run, and the only keys an update writes that the state already holds
\* are the list keys errors and guardrails_applied.
C9_ResultKeysWrittenOnce ==
    /\ \A i \in DOMAIN log :
          /\ \A k \in log[i].keys \cap ResultKeys :
                /\ log[i].node \in DOMAIN ResultKeyOf
                /\ ResultKeyOf[log[i].node] = k
          /\ log[i].keys \cap log[i].had \subseteq {"errors", "guardrails_applied"}
    /\ \A i, j \in DOMAIN log :
          i < j => log[i].keys \cap log[j].keys \cap ResultKeys = {}

C9_AllResultsSet ==
    /\ pc = "Done"
    /\ ResultKeys \subseteq DOMAIN state

\* C9 as stated: besides the above, no update writes any key that the state
\* already holds.
C9_NoKeyOverwritten ==
    /\ C9_ResultKeysWrittenOnce
    /\ \A i \in DOMAIN log : log[i].keys \cap log[i].had = {}

\* C10: sentiment_analysis, event_detection and volatility_prediction each
\* leave exactly one report when they complete and none when they fail, the
\* run leaves exactly one final report once Done, and the coordinator leaves
\* no report of its own.
C10_OneArtifactPerAnalyticStage ==
    /\ \A n \in AnalyticNodes :
          ArtifactCount(ReportNameOf[n]) = IF n \in CompletedNodes THEN 1 ELSE 0
    /\ ArtifactCount("final_report") = IF pc = "Done" THEN 1 ELSE 0
    /\ \A i \in DOMAIN artifacts :
          artifacts[i].stage \in ReportNames \cup {"final_report"}

C10_MixedRunDone ==
    /\ pc = "Done"
    /\ {"coordinator", "sentiment_analysis"} \subseteq CompletedNodes
    /\ "event_detection" \in FailedNodes
    /\ ArtifactCount("sentiment") = 1
    /\ ArtifactCount("event_detection") = 0
    /\ ArtifactCount("final_report") = 1

\* C10 as stated: every node that completes, the coordinator included,
\* leaves exactly one report, and a node that fails leaves none.
C10_EveryCompletedStage ==
    /\ \A n \in AnalyticNodes :
          ArtifactCount(ReportNameOf[n]) = IF n \in CompletedNodes THEN 1 ELSE 0
    /\ ArtifactCount("coordinator") = IF "coordinator" \in CompletedNodes THEN 1 ELSE 0
    /\ ArtifactCount("final_report") = IF pc = "Done" THEN 1 ELSE 0

-----------------------------------------------------------------------------
(* The final-report extractor: api.FinSightAPI.generate_final_report, the   *)
(* key metrics of the executive summary                                      *)

Rest(v, cap) == SubSeq(v, Len(cap) + 1, Len(v))
StartsWith(v, tok) == v # <<>> /\ v[1] = tok

\* (\w+)\s*\(Score:\s*([\d.]+),\s*Confidence:\s*([\d.]+)%\)
SummaryMatch(v) ==
    LET name == CapWord(v)
        r1 == Rest(v, name)
        score == IF StartsWith(r1, " (Score: ") THEN CapNum(Tail(r1)) ELSE <<>>
        r2 == IF score = <<>> THEN <<>> ELSE Rest(Tail(r1), score)
        conf == IF StartsWith(r2, ", Confidence: ") THEN CapNum(Tail(r2)) ELSE <<>>
        r3 == IF conf = <<>> THEN <<>> ELSE Rest(Tail(r2), conf)
    IN  [ok |-> /\ name # <<>> /\ score # <<>> /\ conf # <<>>
                /\ Len(r3) >= 2 /\ r3[1] = "%" /\ r3[2] = ")",
         name |-> name, score |-> score, conf |-> conf]

\* (\d+)\s*\((\d+)\s*verified,\s*Confidence:\s*([\d.]+)%\)
EventsMatch(v) ==
    LET total == CapInt(v)
        r1 == Rest(v, total)
        verified == IF StartsWith(r1, " (") THEN CapInt(Tail(r1)) ELSE <<>>
        r2 == IF verified = <<>> THEN <<>> ELSE Rest(Tail(r1), verified)
        conf == IF StartsWith(r2, " verified, Confidence: ")
                THEN CapNum(Tail(r2)) ELSE <<>>
        r3 == IF conf = <<>> THEN <<>> ELSE Rest(Tail(r2), conf)
    IN  [ok |-> /\ total # <<>> /\ verified # <<>> /\ conf # <<>>
                /\ Len(r3) >= 2 /\ r3[1] = "%" /\ r3[2] = ")",
         total |-> total, verified |-> verified, conf |-> conf]

\* re.search over the content: the first line that carries **lab:** and
\* matches; ok is FALSE when no line does
FirstMatch(content, lab, Match(_)) ==
    LET I == {i \in 1..Len(content) :
                /\ IsFieldLine(content[i])
                /\ content[i].s = lab
                /\ Match(content[i].v).ok}
    IN  IF I = {} THEN [ok |-> FALSE] ELSE Match(content[Min(I)].v)

\* the encodings Path.read_text() may decode with: the default of the locale
Encodings == {"utf-8", "cp1252"}

\* the status cells as cp1252 shows their UTF-8 bytes
PassMojibake == "PASS_CHECKMARK_AS_CP1252"
LowMojibake == "LOW_WARNING_AS_CP1252"

\* the report was written with encoding='utf-8'; read_text() decodes its
\* bytes with the default encoding, which changes the characters outside
\* ASCII: those of the status cells
read_text(content, encoding) ==
    [i \in DOMAIN content |->
        IF encoding = "utf-8" \/ content[i].t # "row" THEN content[i]
        ELSE [content[i] EXCEPT !.v =
                [k \in DOMAIN content[i].v |->
                    CASE content[i].v[k] = PassMark -> PassMojibake
                      [] content[i].v[k] = LowMark -> LowMojibake
                      [] OTHER -> content[i].v[k]]]]

\* row.split('|')[1:-1], each stripped: the cells of a row after the first
RECURSIVE SplitCells(_)
SplitCells(v) ==
    LET I == {k \in DOMAIN v : v[k] = "|"}
    IN  IF I = {} THEN <<v>>
        ELSE <<SubSeq(v, 1, Min(I) - 1)>> \o SplitCells(SubSeq(v, Min(I) + 1, Len(v)))

\* cols[1].replace('%', '')
WithoutPercent(cs) == SelectSeq(cs, LAMBDA c : c # "%")

\* 'Pass' if (the check mark as cp1252 shows it) in cols[3] else 'Fail'
StatusOfCell(cell) == IF cell = <<PassMojibake>> THEN "Pass" ELSE "Fail"

\* \|\s*Agent\s*\|\s*Confidence.*?\n\|.*?\n((?:\|.*?\n)+): the rows under the
\* first header row that is followed by a separator row and a row
TableMatch(content) ==
    LET IsRow(i) == i \in DOMAIN content /\ content[i].t = "row"
        I == {i \in DOMAIN content :
                /\ IsRow(i) /\ content[i].s = "Agent"
                /\ content[i].v # <<>> /\ content[i].v[1] = "Confidence"
                /\ IsRow(i + 1) /\ IsRow(i + 2)}
    IN  IF I = {} THEN <<>>
        ELSE LET first == Min(I) + 2
                 last == Min({j \in first..Len(content) : ~IsRow(j + 1)})
             IN  SubSeq(content, first, last)

\* the rows with at least 4 cells
SummaryRows(content) ==
    SelectSeq(TableMatch(content), LAMBDA row : Len(SplitCells(row.v)) >= 3)

ConfidenceSummary(content) ==
    LET rows == SummaryRows(content)
    IN  [i \in DOMAIN rows |->
            LET cols == SplitCells(rows[i].v)
            IN  [agent |-> rows[i].s,
                 confidence |-> ParseFloat(WithoutPercent(cols[1])),
                 threshold |-> ParseFloat(WithoutPercent(cols[2])),
                 status |-> StatusOfCell(cols[3])]]

generate_final_report(ticker, content) ==
    LET sm == FirstMatch(content, "Sentiment", SummaryMatch)
        em == FirstMatch(content, "Events Detected", EventsMatch)
        vm == FirstMatch(content, "Predicted Volatility", SummaryMatch)
        hv == FieldCapture(content, "Historical Volatility", CapNumPct)
        floats == (IF sm.ok THEN {sm.score, sm.conf} ELSE {})
                  \cup (IF em.ok THEN {em.conf} ELSE {})
                  \cup (IF vm.ok THEN {vm.score, vm.conf} ELSE {})
                  \cup (IF hv # <<>> THEN {hv} ELSE {})
        cs == ConfidenceSummary(content)
    IN  IF \/ \E f \in floats : ~ParseFloat(f).ok
           \/ \E i \in DOMAIN cs : ~cs[i].confidence.ok \/ ~cs[i].threshold.ok
        THEN Raised
        ELSE [raised |-> FALSE,
              ticker |-> <<ticker>>,
              confidence_summary |->
                  [i \in DOMAIN cs |->
                      [agent |-> cs[i].agent,
                       confidence |-> cs[i].confidence.v,
                       threshold |-> cs[i].threshold.v,
                       status |-> cs[i].status]],
              sentiment |-> IF sm.ok THEN sm.name ELSE <<"positive">>,
              sentiment_score |->
                  IF sm.ok THEN ParseFloat(sm.score).v ELSE DefaultSentimentScore,
              sentiment_confidence |->
                  IF sm.ok THEN ParseFloat(sm.conf).v ELSE DefaultConfidence,
              events_detected |-> IF em.ok THEN ParseInt(em.total) ELSE 0,
              events_verified |-> IF em.ok THEN ParseInt(em.verified) ELSE 0,
              events_confidence |->
                  IF em.ok THEN ParseFloat(em.conf).v ELSE DefaultConfidence,
              predicted_volatility |-> IF vm.ok THEN vm.name ELSE <<"medium">>,
              volatility_score |->
                  IF vm.ok THEN ParseFloat(vm.score).v ELSE DefaultVolatilityScore,
              volatility_confidence |->
                  IF vm.ok THEN ParseFloat(vm.conf).v ELSE DefaultConfidence,
              historical_volatility |->
                  IF hv # <<>> THEN ParseFloat(hv).v
                  ELSE DefaultHistoricalVolatility]

-----------------------------------------------------------------------------
(* The reader: a report is written to the output directory, it may be       *)
(* changed there, and the operation of api.py for its kind reads it back.   *)

\* the results the stages of a run hand to _save_agent_report and to
\* _generate_final_report
StageSentimentResults ==
    {SentimentResultOf(r, news) : r \in SentimentCompletions, news \in NewsOutcomes}
StageEventResults ==
    {EventResultOf(r, sec) : r \in EventCompletions, sec \in SecOutcomes}
StageVolatilityResults ==
    {VolatilityResultOf(r, market,
         AnswerQuestions(DEFAULT_ANALYSIS_QUESTIONS, 1..QuestionLimit))
       : r \in VolatilityCompletions, market \in MarketOutcomes}
StageDecisions ==
    {d \in Decisions : d.agents_to_invoke = AgentNames}

\* a state in which key is unset, or holds one of the results
Optional(key, results) ==
    {EmptyState} \cup {[k \in {key} |-> r] : r \in results}

\* the states _synthesize_report_node can be invoked in
FinalStates ==
    {d @@ sr @@ er @@ vr @@ InitialState(path, ticker, DefaultQuery) :
        d \in Optional("metacognitive_decision", StageDecisions),
        sr \in Optional("sentiment_result", StageSentimentResults),
        er \in Optional("event_detection_result", StageEventResults),
        vr \in Optional("volatility_result", StageVolatilityResults),
        path \in Paths, ticker \in Tickers}

\* results with every label, score, confidence and count of the pools, and
\* the shortest lists
SummarySentimentResults ==
    {r \in SentimentResults :
        /\ r.key_sentiment_drivers = Prefix(DriverPool, 1)
        /\ r.news_headlines = <<>>
        /\ r.tool_validations = <<>>}
SummaryEventResults ==
    {r \in EventResults :
        /\ r.events = Prefix(EventPool, MaxEvents)
        /\ r.tool_validations = <<>>}
SummaryVolatilityResults ==
    {r \in VolatilityResults :
        /\ r.transcript_insights = <<>>
        /\ r.key_volatility_drivers = Prefix(DriverPool, 1)
        /\ r.tool_validations = <<>>}

\* a state in which key is unset, or holds some one result
Either(key, results) ==
    {EmptyState, [k \in {key} |-> CHOOSE r \in results : TRUE]}

\* the states _synthesize_report_node can be invoked in, one stage ranging
\* over all its results while the others ran or failed
SummaryStates ==
    LET base == InitialState(CHOOSE p \in Paths : TRUE,
                             CHOOSE t \in Tickers : TRUE, DefaultQuery)
        S1 == Either("sentiment_result", SummarySentimentResults)
        E1 == Either("event_detection_result", SummaryEventResults)
        V1 == Either("volatility_result", SummaryVolatilityResults)
    IN  {sr @@ er @@ vr @@ base :
            sr \in Optional("sentiment_result", SummarySentimentResults),
            er \in E1, vr \in V1}
        \cup {sr @@ er @@ vr @@ base :
            sr \in S1,
            er \in Optional("event_detection_result", SummaryEventResults),
            vr \in V1}
        \cup {sr @@ er @@ vr @@ base :
            sr \in S1, er \in E1,
            vr \in Optional("volatility_result", SummaryVolatilityResults)}

ApiFile(stage, ticker, content) ==
    [stage |-> stage, ticker |-> ticker, content |-> content]

\* the lines of content without the "**lab:**" lines of the labels in D
DropLabels(content, D) ==
    SelectSeq(content, LAMBDA l : ~(IsFieldLine(l) /\ l.s \in D))

\* content with the value after every "**lab:**" replaced by bad
CorruptLabel(content, lab, bad) ==
    [i \in DOMAIN content |->
        IF IsFieldLine(content[i]) /\ content[i].s = lab
        THEN [content[i] EXCEPT !.v = bad] ELSE content[i]]

HasLabel(content, lab) ==
    \E i \in DOMAIN content : IsFieldLine(content[i]) /\ content[i].s = lab

\* the label sets a changed report may lack
DropSets ==
    {{"Sentiment"}, {"Score"}, {"Confidence"},
     {"Sentiment", "Score", "Confidence"},
     {"Total Events Found"}, {"Verified Events"},
     {"Total Events Found", "Verified Events"},
     {"Predicted Volatility"}, {"Volatility Score"}, {"Historical Volatility"},
     {"Predicted Volatility", "Volatility Score", "Historical Volatility"},
     {"Events Detected"}}

\* the numeric labels, and texts that the patterns accept but float() rejects
NumericLabels == {"Score", "Confidence", "Volatility Score", "Historical Volatility"}
BadNumbers == {<<".">>, <<"-">>, <<".", ".", "%">>}

Edit(D, corrupt, bad) == [drop |-> D, corrupt |-> corrupt, bad |-> bad]

WriteReport(stage, ticker, content, source) ==
    /\ apiPhase = "idle"
    /\ apiFile' = ApiFile(stage, ticker, content)
    /\ apiSource' = source
    /\ apiPhase' = "file"
    /\ UNCHANGED <<apiEdit, apiOut>>
    /\ UNCHANGED <<runVars, agentCall, diskVars>>

\* _save_agent_report(ticker, 'sentiment', result)
WriteSentimentReport ==
    \E ticker \in Tickers, r \in SentimentResults :
        WriteReport("sentiment", ticker,
                    FormatAgentReport("sentiment", ticker, Timestamp, r), <<r>>)

\* _save_agent_report(ticker, 'event_detection', result)
WriteEventReport ==
    \E ticker \in Tickers, r \in EventResults :
        WriteReport("event_detection", ticker,
                    FormatAgentReport("event_detection", ticker, Timestamp, r),
                    <<r>>)

\* _save_agent_report(ticker, 'volatility', result)
WriteVolatilityReport ==
    \E ticker \in Tickers, r \in VolatilityResults :
        WriteReport("volatility", ticker,
                    FormatAgentReport("volatility", ticker, Timestamp, r), <<r>>)

\* run_analysis: the final report of a finished run
WriteFinalReport ==
    \E st \in FinalStates \cup SummaryStates :
        WriteReport("final_report", st.company_ticker,
                    GenerateFinalReport(st, Timestamp), <<st>>)

\* a report file of the right name and no content
WriteEmptyReport ==
    \E stage \in ReportNames \cup {"final_report"}, ticker \in Tickers :
        WriteReport(stage, ticker, <<>>, <<>>)

ChangeReport(content, edit) ==
    /\ apiPhase = "file"
    /\ apiEdit = <<>>
    /\ content # apiFile.content
    /\ apiFile' = [apiFile EXCEPT !.content = content]
    /\ apiEdit' = <<edit>>
    /\ UNCHANGED <<apiPhase, apiSource, apiOut>>
    /\ UNCHANGED <<runVars, agentCall, diskVars>>

\* the report loses the lines of some labels
DropFields ==
    \E D \in DropSets :
        ChangeReport(DropLabels(apiFile.content, D), Edit(D, {}, <<>>))

\* a number of the report becomes a text that is no number
CorruptField ==
    \E lab \in NumericLabels, bad \in BadNumbers :
        /\ apiFile # <<>>
        /\ apiFile.stage \in ReportNames
        /\ ChangeReport(CorruptLabel(apiFile.content, lab, bad),
                        Edit({}, {lab}, bad))

Extract(stage, out) ==
    /\ apiPhase = "file"
    /\ apiFile.stage = stage
    /\ apiOut' = <<out>>
    /\ apiPhase' = "done"
    /\ UNCHANGED <<apiFile, apiSource, apiEdit>>
    /\ UNCHANGED <<runVars, agentCall, diskVars>>

ApiAnalyzeSentiment ==
    /\ apiPhase = "file"
    /\ Extract("sentiment", analyze_sentiment(apiFile.ticker, apiFile.content))

ApiDetectEvents ==
    /\ apiPhase = "file"
    /\ Extract("event_detection", detect_events(apiFile.ticker, apiFile.content))

ApiPredictVolatility ==
    /\ apiPhase = "file"
    /\ Extract("volatility", predict_volatility(apiFile.ticker, apiFile.content))

ApiGenerateFinalReport ==
    /\ apiPhase = "file"
    /\ \E encoding \in Encodings :
          Extract("final_report",
                  generate_final_report(apiFile.ticker,
                                        read_text(apiFile.content, encoding)))

ApiNext ==
    \/ WriteSentimentReport
    \/ WriteEventReport
    \/ WriteVolatilityReport
    \/ WriteFinalReport
    \/ WriteEmptyReport
    \/ DropFields
    \/ CorruptField
    \/ ApiAnalyzeSentiment
    \/ ApiDetectEvents
    \/ ApiPredictVolatility
    \/ ApiGenerateFinalReport

ApiSpec == Init /\ [][ApiNext]_vars

-----------------------------------------------------------------------------
(* Properties of the reader *)

Read == apiPhase = "done"
Out == apiOut[1]
Source == apiSource[1]
\* the report is read as the formatter wrote it
ReadAsWritten == Read /\ apiEdit = <<>> /\ apiSource # <<>>

\* x as "%.2f" shows it, and as "%.2%" shows it: the number before the "%"
\* (100 * x to two decimals) and that number over 100
Fixed2(x) ==
    (IF x < 0 THEN -1 ELSE 1) * RoundHalfEven(Abs(x), Scale \div 100) * (Scale \div 100)
Percent2(x) == RoundHalfEven(x, Scale \div 10000) * (Scale \div 100)
Fraction4(x) == RoundHalfEven(x, Scale \div 10000) * (Scale \div 10000)

\* a written percentage comes back, in either unit
PercentRecovered(out, x) == out \in {Percent2(x), Fraction4(x)}

SentimentRecovered(r, out) ==
    /\ out.sentiment = <<r.overall_sentiment>>
    /\ out.score = Fixed2(r.sentiment_score)
    /\ PercentRecovered(out.confidence, r.confidence)
    /\ out.market_summary = TextLines(r.market_sentiment)
    /\ out.key_drivers = r.key_sentiment_drivers
    /\ out.news_headlines = r.news_headlines
    /\ out.tool_validations = r.tool_validations

EventRecovered(e, out) ==
    /\ out.type = e.event_type
    /\ out.description = <<e.description>>
    /\ out.verified = e.verified
    /\ out.source = e.source
    /\ out.impact \in {<<e.impact_assessment>>, <<Upper(e.impact_assessment)>>}

EventsRecovered(r, out) ==
    /\ out.total_events = r.total_events_found
    /\ out.verified_events = r.verified_count
    /\ PercentRecovered(out.confidence, r.confidence)
    /\ out.tool_validations = r.tool_validations
    /\ Len(out.events) = Len(r.events)
    /\ \A i \in DOMAIN r.events : EventRecovered(r.events[i], out.events[i])

InsightRecovered(a, out) ==
    /\ out.title = a.focus_item
    /\ out.question = <<a.question>>
    /\ out.answer = <<a.answer>>
    /\ PercentRecovered(out.confidence, a.confidence)

VolatilityRecovered(r, out) ==
    /\ out.predicted_volatility = <<r.predicted_volatility>>
    /\ out.volatility_score = Fixed2(r.volatility_score)
    /\ PercentRecovered(out.historical_volatility, r.historical_volatility)
    /\ PercentRecovered(out.confidence, r.confidence)
    /\ out.key_drivers = r.key_volatility_drivers
    /\ out.sentiment_impact = TextLines(r.sentiment_impact)
    /\ out.event_impact = TextLines(r.event_impact)
    /\ out.tool_validations = r.tool_validations
    /\ Len(out.transcript_insights) = Len(r.transcript_insights)
    /\ \A i \in DOMAIN r.transcript_insights :
          InsightRecovered(r.transcript_insights[i], out.transcript_insights[i])

\* C5: round trip: a stage report written by the per-stage formatter and
\* read back by the matching operation gives every field of the result
\* (numbers as they were written, texts line by line, lists item by item).
C5_RoundTrip ==
    (ReadAsWritten /\ apiFile.stage \in ReportNames) =>
        /\ ~Out.raised
        /\ CASE apiFile.stage = "sentiment" -> SentimentRecovered(Source, Out)
             [] apiFile.stage = "event_detection" -> EventsRecovered(Source, Out)
             [] apiFile.stage = "volatility" -> VolatilityRecovered(Source, Out)

\* C6: whatever the text, the operation returns without raising, and a field
\* whose label is not in the text takes its default: sentiment "positive",
\* score 0.75, confidence 85%; volatility "medium", score 0.65, historical
\* volatility 20%.
C6_NeverRaises ==
    Read =>
        /\ ~Out.raised
        /\ apiFile.stage = "sentiment" =>
              /\ ~HasLabel(apiFile.content, "Sentiment") =>
                    Out.sentiment = <<"positive">>
              /\ ~HasLabel(apiFile.content, "Score") =>
                    Out.score = DefaultSentimentScore
              /\ ~HasLabel(apiFile.content, "Confidence") =>
                    Out.confidence = DefaultConfidence
        /\ apiFile.stage = "volatility" =>
              /\ ~HasLabel(apiFile.content, "Predicted Volatility") =>
                    Out.predicted_volatility = <<"medium">>
              /\ ~HasLabel(apiFile.content, "Volatility Score") =>
                    Out.volatility_score = DefaultVolatilityScore
              /\ ~HasLabel(apiFile.content, "Historical Volatility") =>
                    Out.historical_volatility = DefaultHistoricalVolatility

\* C7: a percent field that the per-stage formatter wrote (confidence,
\* historical volatility) is returned as the number written before the "%",
\* that is 100 times the formatted fraction, to two decimals.
C7_PercentAsWritten ==
    (ReadAsWritten /\ apiFile.stage \in ReportNames) =>
        /\ ~Out.raised
        /\ Out.confidence = Percent2(Source.confidence)
        /\ apiFile.stage = "volatility" =>
              Out.historical_volatility = Percent2(Source.historical_volatility)

C7_VolatilityPercentRead ==
    /\ ReadAsWritten
    /\ apiFile.stage = "volatility"
    /\ Source.confidence = (55 * Scale) \div 100
    /\ Source.historical_volatility = 234500
    /\ Out.confidence = 55 * Scale
    /\ Out.historical_volatility = 23450000

\* C7 as stated: the percent fields are returned divided by 100, as the
\* fraction in [0,1] that was formatted.
C7_PercentAsFraction ==
    (ReadAsWritten /\ apiFile.stage \in ReportNames) =>
        /\ ~Out.raised
        /\ Out.confidence = Fraction4(Source.confidence)
        /\ apiFile.stage = "volatility" =>
              Out.historical_volatility = Fraction4(Source.historical_volatility)

\* C8: when the text has no "Total Events Found" line, detect_events returns
\* the number of event sections it extracted as the total, and likewise for
\* "Verified Events" and the verified count; when the final report has no
\* "Events Detected" line, generate_final_report returns 0 for both counts.
C8_EventCountDefaults ==
    (Read /\ ~Out.raised) =>
        /\ apiFile.stage = "event_detection" =>
              /\ ~HasLabel(apiFile.content, "Total Events Found") =>
                    Out.total_events = Len(Out.events)
              /\ ~HasLabel(apiFile.content, "Verified Events") =>
                    Out.verified_events = Len(Out.events)
        /\ (/\ apiFile.stage = "final_report"
            /\ ~HasLabel(apiFile.content, "Events Detected")) =>
                Out.events_detected = 0 /\ Out.events_verified = 0

C8_CountLinesDropped ==
    /\ Read
    /\ apiFile.stage = "event_detection"
    /\ apiEdit # <<>>
    /\ apiEdit[1].drop = {"Total Events Found", "Verified Events"}
    /\ ~Out.raised
    /\ Out.events # <<>>
    /\ Out.total_events = Len(Out.events)
    /\ Out.verified_events = Len(Out.events)

\* C8 as stated: without the event-count lines both counts are 0, in
\* detect_events and in generate_final_report, whatever event sections the
\* text holds.
C8_CountsDefaultToZero ==
    (Read /\ ~Out.raised) =>
        /\ (/\ apiFile.stage = "event_detection"
            /\ ~HasLabel(apiFile.content, "Total Events Found")
            /\ ~HasLabel(apiFile.content, "Verified Events")) =>
                Out.total_events = 0 /\ Out.verified_events = 0
        /\ (/\ apiFile.stage = "final_report"
            /\ ~HasLabel(apiFile.content, "Events Detected")) =>
                Out.events_detected = 0 /\ Out.events_verified = 0

-----------------------------------------------------------------------------
(* Order of the file writes within the run *)

Positions(ev) == {i \in DOMAIN trace : trace[i] = ev}
WritePositions == {i \in DOMAIN trace : trace[i].e = "write"}
FinalWrite == [e |-> "write", what |-> "final_report"]

\* the nodes that follow node n in the workflow
NodesAfter(n) ==
    LET i == CHOOSE k \in DOMAIN NodeOrder : NodeOrder[k] = n
    IN  {NodeOrder[k] : k \in (i + 1)..Len(NodeOrder)}

\* C11: the report of an analytic stage that produced a result is written
\* after that stage is invoked and before any later stage is invoked; the
\* final report is written after synthesize_report is invoked and after
\* every per-stage report of the run, and it is written by the time the run
\* is Done.
C11_WritesInterleaved ==
    /\ \A n \in AnalyticNodes :
          Has(state, ResultKeyOf[n]) =>
             \E w \in Positions([e |-> "write", what |-> ReportNameOf[n]]) :
                /\ \E i \in Positions(Invoked(n)) : i < w
                /\ \A m \in NodesAfter(n) : \A j \in Positions(Invoked(m)) : w < j
    /\ \A w \in Positions(FinalWrite) :
          /\ \E i \in Positions(Invoked("synthesize_report")) : i < w
          /\ \A k \in WritePositions : k # w => k < w
    /\ pc = "Done" => Positions(FinalWrite) # {}

C11_AllWrittenDone ==
    /\ pc = "Done"
    /\ \A n \in AnalyticNodes : Has(state, ResultKeyOf[n])
    /\ Cardinality(WritePositions) = 4
    /\ trace[Len(trace)] = FinalWrite

-----------------------------------------------------------------------------
(* The sections of the final report *)

SectionTitleOf ==
    [metacognitive_decision |-> "1. Coordinator's Metacognitive Analysis",
     sentiment_result |-> "2. Sentiment Analysis",
     event_detection_result |-> "3. Significant Event Detection",
     volatility_result |-> "4. Volatility Prediction"]

\* the field a section starts with when it is rendered from its result
FirstFieldOf ==
    [metacognitive_decision |-> "User Intent",
     sentiment_result |-> "Overall Sentiment",
     event_detection_result |-> "Total Events Found",
     volatility_result |-> "Predicted Volatility"]

\* a line of running text that says the section's analysis is not available
IsMarker(l) == l.t = "para" /\ l.s \in {SentimentNA, EventsNA, VolatilityNA}

\* any line at all that is not blank
IsText(l) == l.t # "blank"

\* C12: in the final report each of the four stage sections whose result key
\* is not set carries a "not available" marker (for the coordinator section:
\* any text at all), and each section whose result key is set starts with the
\* fields of that result and carries no marker.
C12_SectionsMarked ==
    Has(state, "final_report") =>
       \A key \in DOMAIN SectionTitleOf :
          LET body == SectionBody(state.final_report, SectionTitleOf[key])
          IN  IF Has(state, key)
              THEN /\ HasField(body, FirstFieldOf[key])
                   /\ \A i \in DOMAIN body : ~IsMarker(body[i])
              ELSE \E i \in DOMAIN body :
                      IF key = "metacognitive_decision"
                      THEN IsText(body[i]) ELSE IsMarker(body[i])

-----------------------------------------------------------------------------
(* The confidence-summary table of the final report *)

TableAgentOf ==
    [sentiment_result |-> "Sentiment Analysis",
     event_detection_result |-> "Event Detection",
     volatility_result |-> "Volatility Prediction"]

\* the fixed thresholds of the self-model, by result key
ThresholdOf ==
    [sentiment_result |-> SentimentThreshold,
     event_detection_result |-> EventThreshold,
     volatility_result |-> VolatilityThreshold]

\* the rows of the table under the two header rows
TableRows(report) ==
    SelectSeq(SectionBody(report, "6. System Confidence Summary"),
              LAMBDA l : l.t = "row" /\ l.s \notin {"Agent", "-------"})

RowsOf(report, agent) == SelectSeq(TableRows(report), LAMBDA l : l.s = agent)

StatusOf(row) == row.v[Len(row.v)]

LowRowIn(report) ==
    \E i \in DOMAIN TableRows(report) : StatusOf(TableRows(report)[i]) = LowMark

\* C13: the table of the final report has one row for each analytic stage
\* whose result is set and none for the others; the row's status is Pass
\* exactly when the result's confidence is at least the stage's fixed
\* threshold (0.65, 0.70, 0.60) and Low otherwise; and a run whose table has
\* a Low row has still invoked every stage in the fixed order.
C13_StatusByThreshold ==
    Has(state, "final_report") =>
       /\ \A key \in DOMAIN TableAgentOf :
             LET rows == RowsOf(state.final_report, TableAgentOf[key])
             IN  IF Has(state, key)
                 THEN /\ Len(rows) = 1
                      /\ StatusOf(rows[1]) \in {PassMark, LowMark}
                      /\ StatusOf(rows[1]) = PassMark
                            <=> state[key].confidence >= ThresholdOf[key]
                 ELSE rows = <<>>
       /\ Len(TableRows(state.final_report))
             = Cardinality({key \in DOMAIN TableAgentOf : Has(state, key)})
       /\ LowRowIn(state.final_report) => invoked = NodeOrder

C13_LowAndPassRows ==
    /\ pc = "Done"
    /\ \A key \in DOMAIN TableAgentOf : Has(state, key)
    /\ StatusOf(RowsOf(state.final_report, "Sentiment Analysis")[1]) = LowMark
    /\ StatusOf(RowsOf(state.final_report, "Event Detection")[1]) = LowMark
    /\ StatusOf(RowsOf(state.final_report, "Volatility Prediction")[1]) = PassMark
    /\ state.event_detection_result.confidence = (55 * Scale) \div 100

GuardrailBody(report) == SectionBody(report, "5. Guardrails and System Boundaries")

\* C14: in every state of a run the guardrails_applied list of the state is
\* empty, also after a stage returned a confidence below its threshold, and
\* the final report gives 0 as the number of guardrail checks performed and
\* carries the sentence that no guardrail violations were detected.
C14_NoGuardrailViolations ==
    /\ pc # "idle" =>
          Has(state, "guardrails_applied") /\ state.guardrails_applied = <<>>
    /\ Has(state, "final_report") =>
          /\ Contains(GuardrailBody(state.final_report),
                      Field("Guardrail Checks Performed", FormatInt(0)))
          /\ Contains(GuardrailBody(state.final_report), Para(NoViolations))

C14_LowConfidenceNoViolation ==
    /\ pc = "Done"
    /\ Has(state, "sentiment_result")
    /\ state.sentiment_result.confidence < SentimentThreshold
    /\ LowRowIn(state.final_report)
    /\ state.guardrails_applied = <<>>
    /\ Contains(GuardrailBody(state.final_report), Para(NoViolations))

-----------------------------------------------------------------------------
(* The command: src/src/main.py and Config.validate (src/src/config.py).    *)
(* An argument is <<v>> when given and <<>> when not.                        *)

RequiredChecks == <<"SCW_DEFAULT_PROJECT_ID", "SCW_SECRET_KEY", "TAVILY_API_KEY">>

\* os.getenv(name, ""): a setting is "" when the variable is not set
Environments == [{RequiredChecks[i] : i \in DOMAIN RequiredChecks} -> {"", "set"}]

\* a validation that reports the first missing setting only
MissingSettingsFirst(env) ==
    LET all == SelectSeq(RequiredChecks, LAMBDA name : env[name] = "")
    IN  Prefix(all, 1)

\* missing = [name for value, name in required_checks if not value]
MissingSettings(env) == SelectSeq(RequiredChecks, LAMBDA name : env[name] = "")

\* Config.validate: raises ValueError naming the missing settings, or
\* returns True
validate(env) ==
    LET missing == MissingSettings(env)
    IN  IF missing # <<>>
        THEN [raised |-> TRUE,
              error |-> <<"Missing required environment variables: ", missing>>]
        ELSE [raised |-> FALSE, value |-> TRUE]

TickerArgs == {"GOOGL", "googl", "", "ALPHABETINC"}

\* ticker.upper()
UpperTicker(t) == IF t = "googl" THEN "GOOGL" ELSE t

\* a check that accepts every ticker
TickerInvalidNever(ticker) == FALSE

\* not ticker or len(ticker) > 10
TickerInvalid(ticker) == ticker = "" \/ Len(ticker) > 10

\* a validation that looks at the transcript path only
validate_inputs_path_only(exists, ticker) == exists

\* validate_inputs(transcript_path, ticker)
validate_inputs(exists, ticker) ==
    IF ~exists THEN FALSE
    ELSE IF TickerInvalid(ticker) THEN FALSE
    ELSE TRUE

\* the command lines and the environments main() may start in
Arguments ==
    [transcript : {<<>>} \cup {<<p>> : p \in Paths},
     ticker : {<<>>} \cup {<<t>> : t \in TickerArgs},
     query : {<<>>}]

Commands ==
    [pc : {"start"}, args : Arguments, env : Environments,
     exists : BOOLEAN, out : {"writable", "uncreatable", "unwritable"},
     cfg : {<<>>}, code : {<<>>}]

Exit(code) == main' = [main EXCEPT !.pc = "exited", !.code = <<code>>]
Goto(where) == main' = [main EXCEPT !.pc = where]

\* parser.parse_args(): both -t and -s are required; argparse exits with 2
ParseArgs ==
    /\ main.pc = "start"
    /\ IF main.args.transcript = <<>> \/ main.args.ticker = <<>>
       THEN Exit(2) ELSE Goto("parsed")
    /\ UNCHANGED <<pc, state, invoked, log, artifacts, trace>>
    /\ UNCHANGED <<apiVars, agentCall, diskVars>>

\* config.validate() in try / except ValueError: sys.exit(1)
ValidateConfig ==
    /\ main.pc = "parsed"
    /\ LET r == validate(main.env)
       IN  main' = IF r.raised
                   THEN [main EXCEPT !.pc = "exited", !.code = <<1>>, !.cfg = <<r>>]
                   ELSE [main EXCEPT !.pc = "configured", !.cfg = <<r>>]
    /\ UNCHANGED <<pc, state, invoked, log, artifacts, trace>>
    /\ UNCHANGED <<apiVars, agentCall, diskVars>>

\* if not validate_inputs(args.transcript, args.ticker): sys.exit(1)
ValidateInputs ==
    /\ main.pc = "configured"
    /\ IF validate_inputs(main.exists, main.args.ticker[1])
       THEN Goto("validated") ELSE Exit(1)
    /\ UNCHANGED <<pc, state, invoked, log, artifacts, trace>>
    /\ UNCHANGED <<apiVars, agentCall, diskVars>>

\* orchestrator = FinSightOrchestrator(): os.makedirs(output_dir) is outside
\* any try, an exception ends the interpreter with code 1
InitOrchestrator ==
    /\ main.pc = "validated"
    /\ IF main.out = "uncreatable" THEN Exit(1) ELSE Goto("ready")
    /\ UNCHANGED <<pc, state, invoked, log, artifacts, trace>>
    /\ UNCHANGED <<apiVars, agentCall, diskVars>>

\* orchestrator.run_analysis(transcript_path, ticker.upper(), user_query)
MainRunAnalysis ==
    /\ main.pc = "ready"
    /\ StartRun(main.args.transcript[1], UpperTicker(main.args.ticker[1]),
                IF main.args.query = <<>> THEN DefaultQuery
                                          ELSE main.args.query[1])
    /\ Goto("running")

\* return 0
MainReturn ==
    /\ main.pc = "running"
    /\ pc = "Done"
    /\ Exit(0)
    /\ UNCHANGED <<pc, state, invoked, log, artifacts, trace>>
    /\ UNCHANGED <<apiVars, agentCall, diskVars>>

\* an interrupt that the run reports as any other failure
MainInterruptAsFailure ==
    /\ main.pc = "running"
    /\ pc # "Raised"
    /\ pc' = "Interrupted"
    /\ Exit(1)
    /\ UNCHANGED <<state, invoked, log, artifacts, trace>>
    /\ UNCHANGED <<apiVars, agentCall, diskVars>>

\* except KeyboardInterrupt: return 130.  No except clause of the run
\* catches it (they catch Exception), so it ends the run where it is, be it
\* between two nodes or after the final report, before run_analysis returns
MainInterrupt ==
    /\ main.pc = "running"
    /\ pc # "Raised"
    /\ pc' = "Interrupted"
    /\ Exit(130)
    /\ UNCHANGED <<state, invoked, log, artifacts, trace>>
    /\ UNCHANGED <<apiVars, agentCall, diskVars>>

\* except Exception: return 1
MainFatal ==
    /\ main.pc = "running"
    /\ pc = "Raised"
    /\ Exit(1)
    /\ UNCHANGED <<pc, state, invoked, log, artifacts, trace>>
    /\ UNCHANGED <<apiVars, agentCall, diskVars>>

MainInit ==
    /\ pc = "idle"
    /\ state = EmptyState
    /\ invoked = <<>>
    /\ log = <<>>
    /\ artifacts = <<>>
    /\ trace = <<>>
    /\ main \in Commands
    /\ apiPhase = "idle"
    /\ apiFile = <<>>
    /\ apiSource = <<>>
    /\ apiEdit = <<>>
    /\ apiOut = <<>>
    /\ agentCall = <<>>
    /\ clock = 0
    /\ runs = [r \in RunIds |-> NotStarted]
    /\ disk = NoFiles

MainNext ==
    \/ ParseArgs
    \/ ValidateConfig
    \/ ValidateInputs
    \/ InitOrchestrator
    \/ MainRunAnalysis
    \/ CoordinatorNode
    \/ LoadTranscriptNode
    \/ SentimentNode
    \/ EventDetectionNode
    \/ VolatilityPredictionNode
    \/ SynthesizeReportNode
    \/ SaveFinalReport
    \/ MainReturn
    \/ MainInterrupt
    \/ MainFatal

MainSpec == MainInit /\ [][MainNext]_vars

-----------------------------------------------------------------------------
(* Properties of the command *)

Exited == main.pc = "exited"
ExitCode == main.code[1]

ArgumentMissing == main.args.transcript = <<>> \/ main.args.ticker = <<>>
ConfigurationMissing == \E i \in DOMAIN RequiredChecks : main.env[RequiredChecks[i]] = ""
InputMissing == ~main.exists
TickerRejected ==
    main.args.ticker # <<>> /\ main.args.ticker[1] \in {"", "ALPHABETINC"}
OutputUncreatable == main.out = "uncreatable"

\* what ends the command before run_analysis is called
StoppedBeforeRun ==
    \/ ArgumentMissing
    \/ ConfigurationMissing
    \/ InputMissing
    \/ TickerRejected
    \/ OutputUncreatable

C17_ValidationNamesMissing ==
    (main.pc # "off" /\ main.cfg # <<>>) =>
       LET r == main.cfg[1]
           M == {name \in DOMAIN main.env : main.env[name] = ""}
       IN  /\ r.raised <=> M # {}
           /\ r.raised =>
                 /\ {r.error[2][i] : i \in DOMAIN r.error[2]} = M
                 /\ Len(r.error[2]) = Cardinality(M)
           /\ ~r.raised => r.value = TRUE

C17_TwoNamed ==
    /\ main.pc = "exited"
    /\ main.cfg # <<>>
    /\ main.cfg[1].raised
    /\ main.cfg[1].error[2] = <<"SCW_DEFAULT_PROJECT_ID", "TAVILY_API_KEY">>
    /\ main.env["SCW_SECRET_KEY"] = "set"

-----------------------------------------------------------------------------
(* A failed load of the input document *)

LoadFailed ==
    \E i \in DOMAIN log : log[i].node = "load_transcript" /\ log[i].failed

\* the messages of read_transcript for a file that is missing or unreadable
IsReadError(e) ==
    /\ Len(e) = 3
    /\ e[1] = "Error"
    /\ e[2] \in {": Transcript file not found at ", " reading transcript: "}

\* C18: once the load of the input document has failed, the document content
\* in the state is empty and the errors list holds the message of the
\* failure, the run raises nothing, and it goes on through sentiment, events,
\* volatility and synthesize to Done with the final report persisted.
C18_LoadFailureAbsorbed ==
    /\ [](LoadFailed =>
            /\ state.transcript_content = <<>>
            /\ \E i \in DOMAIN state.errors : state.errors[i][1] = "Error"
            /\ pc # "Raised")
    /\ LoadFailed ~> (pc = "Done" /\ invoked = NodeOrder /\ FinalPersisted)

C18_MissingFileDone ==
    /\ pc = "Done"
    /\ LoadFailed
    /\ state.transcript_content = <<>>
    /\ \E i \in DOMAIN state.errors :
          /\ IsReadError(state.errors[i])
          /\ state.errors[i][2] = ": Transcript file not found at "
    /\ SubSeq(invoked, 3, 6) = SubSeq(NodeOrder, 3, 6)
    /\ Has(state, "sentiment_result")

-----------------------------------------------------------------------------
(* One call of an agent's process(), with the calls it issues: the          *)
(* validation provider first, then (volatility) one completion per question *)
(* asked, then the structured completion of the stage.                      *)

Issued(what, about) == [call |-> what, about |-> about]

\* the calls process() issues, in order
CallsIssued(provider, pcall, insight_calls) ==
    <<Issued(provider, "")>>
    \o (IF ProviderAborts(pcall) THEN <<>>
        ELSE insight_calls \o <<Issued("completion", "")>>)

QuestionPool ==
    DEFAULT_ANALYSIS_QUESTIONS
    \o << Question("Buybacks", "Did the company announce buybacks?"),
          Question("Margins", "How did margins develop?") >>

\* the states process() may be called with: errors empty or not, and any
\* number of analysis questions
CallStates ==
    {[InitialState(path, ticker, DefaultQuery)
        EXCEPT !.errors = e, !.analysis_questions = qs] :
        path \in Paths, ticker \in Tickers,
        e \in {<<>>, <<ErrorString("Coordinator error", "completion failed")>>},
        qs \in {Prefix(QuestionPool, k) : k \in 0..Len(QuestionPool)}}

\* what with_structured_output(Model) may hand back: the completion is
\* validated against the types of the model class, which bound no number
UnboundedConfidence == (150 * Scale) \div 100
SentimentReturns ==
    SentimentCompletions
    \cup {[r EXCEPT !.confidence = UnboundedConfidence] : r \in SentimentCompletions}
EventReturns ==
    EventCompletions
    \cup {[r EXCEPT !.confidence = UnboundedConfidence] : r \in EventCompletions}
    \cup {[r EXCEPT !.total_events_found = 3, !.verified_count = 4] :
             r \in EventCompletions}
VolatilityReturns ==
    VolatilityCompletions
    \cup {[r EXCEPT !.confidence = UnboundedConfidence] : r \in VolatilityCompletions}

ProcessCalled(agent, st, pcall, issued, answered, ok, upd) ==
    /\ agentCall = <<>>
    /\ agentCall' = <<[agent |-> agent, st |-> st, failure |-> pcall.failure,
                  issued |-> issued, answered |-> answered,
                  raised |-> ProviderAborts(pcall), ok |-> ok,
                  upd |-> IF ProviderAborts(pcall) THEN EmptyState ELSE upd]>>
    /\ UNCHANGED <<runVars, apiVars, diskVars>>

\* SentimentAnalysisAgent.process(state)
CallSentiment ==
    \E st \in CallStates, pcall \in NewsCalls,
       outcome \in Outcomes(SentimentReturns) :
        /\ Len(st.analysis_questions) = Len(DEFAULT_ANALYSIS_QUESTIONS)
        /\ ProcessCalled("sentiment", st, pcall,
               CallsIssued("get_sentiment_news", pcall, <<>>), {}, outcome.ok,
               SentimentProcess(st, gather_news_context(pcall), outcome))

\* EventDetectionAgent.process(state)
CallEvents ==
    \E st \in CallStates, pcall \in SecCalls,
       outcome \in Outcomes(EventReturns) :
        /\ Len(st.analysis_questions) = Len(DEFAULT_ANALYSIS_QUESTIONS)
        /\ ProcessCalled("event_detection", st, pcall,
               CallsIssued("download_recent_filings", pcall, <<>>), {}, outcome.ok,
               EventProcess(st, validate_with_sec_filings(pcall), outcome))

\* VolatilityPredictionAgent.process(state)
CallVolatility ==
    \E st \in CallStates, pcall \in MarketCalls,
       outcome \in Outcomes(VolatilityReturns) :
        \E answered \in SUBSET (1..Len(QuestionsAsked(st.analysis_questions))) :
            LET asked == QuestionsAsked(st.analysis_questions)
            IN  ProcessCalled("volatility", st, pcall,
                    CallsIssued("get_historical_volatility", pcall,
                        [i \in DOMAIN asked |-> Issued("insight", asked[i].focus_item)]),
                    answered, outcome.ok,
                    VolatilityProcess(st, validate_with_market_data(pcall),
                                      answered, outcome))

AgentNext ==
    \/ CallSentiment
    \/ CallEvents
    \/ CallVolatility

AgentSpec == Init /\ [][AgentNext]_vars

-----------------------------------------------------------------------------
(* Properties of one call of process() *)

Called == agentCall # <<>>
TheCall == agentCall[1]

ResultKeyOfAgent ==
    [sentiment |-> "sentiment_result",
     event_detection |-> "event_detection_result",
     volatility |-> "volatility_result"]

ErrorPrefixOfAgent ==
    [sentiment |-> "Sentiment analysis error",
     event_detection |-> "Event detection error",
     volatility |-> "Volatility prediction error"]

\* the update of a call: the stage's result and nothing else when the
\* completion succeeded, else the errors so far and the completion's error
UpdateByCompletionOnly(c) ==
    IF c.ok
    THEN DOMAIN c.upd = {ResultKeyOfAgent[c.agent]}
    ELSE /\ DOMAIN c.upd = {"errors"}
         /\ c.upd.errors = c.st.errors
               \o <<ErrorString(ErrorPrefixOfAgent[c.agent], "completion failed")>>

CompletionIssued(c) ==
    c.issued # <<>> /\ c.issued[Len(c.issued)] = Issued("completion", "")

\* the notes that tell of a provider failure
FailureNotes == {SecErrorNote, MarketErrorNote}

NoteOfFailure(c) ==
    /\ c.ok
    /\ \E i \in DOMAIN c.upd[ResultKeyOfAgent[c.agent]].tool_validations :
          c.upd[ResultKeyOfAgent[c.agent]].tool_validations[i] \in FailureNotes

\* C19 (as stated): a failed provider call does not abort process(), the
\* completion is still issued, the update carries no error of the provider,
\* and the result the stage produces holds a validation note of the failure.
C19_FailureBecomesNote ==
    (Called /\ TheCall.failure \in ProviderFailures) =>
       /\ ~TheCall.raised
       /\ CompletionIssued(TheCall)
       /\ UpdateByCompletionOnly(TheCall)
       /\ TheCall.ok => NoteOfFailure(TheCall)

\* C19 (amended): a failed provider call does not abort process(), the
\* completion is still issued and the update is the one the completion
\* alone decides (no error of the provider); the result holds a note of the
\* failure exactly for a filing download that failed inside the tool and for
\* a market-data failure that reached the agent.
C19_FailureAbsorbed ==
    (Called /\ TheCall.failure \in ProviderFailures) =>
       /\ ~TheCall.raised
       /\ CompletionIssued(TheCall)
       /\ UpdateByCompletionOnly(TheCall)
       /\ TheCall.ok =>
             (NoteOfFailure(TheCall) <=>
                 \/ TheCall.agent = "event_detection" /\ TheCall.failure = "in_tool"
                 \/ TheCall.agent = "volatility" /\ TheCall.failure = "raised")

C19_NewsFailureNoNote ==
    /\ Called
    /\ TheCall.agent = "sentiment"
    /\ TheCall.failure = "raised"
    /\ TheCall.ok
    /\ CompletionIssued(TheCall)
    /\ TheCall.upd.sentiment_result.tool_validations = <<>>

\* the position in the list of insights of the answer to the question asked
\* at position i
RankAmong(answered, i) == Cardinality({j \in answered : j <= i})

\* C20: process() of the volatility agent issues one insight completion for
\* each of the first 5 analysis questions, in order, and none for the
\* others; the insights of its result are the answers of the completions
\* that succeeded, in question order; failed insight completions add no
\* error and the result is produced whenever the stage's own completion
\* succeeds.
C20_InsightsOfFirstFive ==
    (Called /\ TheCall.agent = "volatility") =>
       LET c == TheCall
           qs == c.st.analysis_questions
           n == IF Len(qs) < 5 THEN Len(qs) ELSE 5
           insight_calls == SelectSeq(c.issued, LAMBDA x : x.call = "insight")
       IN  /\ Len(insight_calls) = n
           /\ \A i \in 1..n : insight_calls[i].about = qs[i].focus_item
           /\ SubSeq(c.issued, 2, n + 1) = insight_calls
           /\ CompletionIssued(c)
           /\ UpdateByCompletionOnly(c)
           /\ c.ok =>
                 LET ins == c.upd.volatility_result.transcript_insights
                 IN  /\ Len(ins) = Cardinality(c.answered)
                     /\ \A i \in c.answered :
                           ins[RankAmong(c.answered, i)] = Answer(qs[i])

C20_SevenQuestionsTwoFailed ==
    /\ Called
    /\ TheCall.agent = "volatility"
    /\ Len(TheCall.st.analysis_questions) = 7
    /\ TheCall.answered = {1, 3, 5}
    /\ TheCall.ok
    /\ Len(TheCall.upd.volatility_result.transcript_insights) = 3

-----------------------------------------------------------------------------
(* Several runs writing into one output directory.  Each run saves the      *)
(* reports of its stages in order; the name of a file is made of the stage, *)
(* the ticker and the clock read to the second.                             *)

TicksPerSecond == 2
MaxClock == 3

Seconds == <<"20261101_200000", "20261101_200001", "20261101_200002">>

\* datetime.now().strftime('%Y%m%d_%H%M%S')
StrfTime(t) == Seconds[(t \div TicksPerSecond) + 1]

\* the words of a name, between underscores
StageWords ==
    [sentiment |-> <<"sentiment">>,
     event_detection |-> <<"event", "detection">>,
     volatility |-> <<"volatility">>,
     final_report |-> <<"final", "report">>]

DiskTickers == {"GOOGL", "AAPL"}

\* the stages that write a report, in the order of the run
StageNames == <<"sentiment", "event_detection", "volatility", "final_report">>

\* a name without the ticker
FileNameWithoutTicker(agent_name, ticker, timestamp) ==
    StageWords[agent_name] \o <<timestamp, ".md">>

\* f"{agent_name}_{ticker}_{timestamp}.md"
FileName(agent_name, ticker, timestamp) ==
    StageWords[agent_name] \o <<ticker, timestamp, ".md">>

\* the report a run writes for a stage
ReportOf(r, stage) == [run |-> r, stage |-> stage]

WriteOf(r, stage, ticker, t) ==
    [run |-> r, stage |-> stage, ticker |-> ticker, second |-> StrfTime(t)]

\* with open(filepath, 'w') as f: f.write(report)
OpenWrite(files, name, content, w) ==
    (name :> [content |-> content,
              writes |-> IF name \in DOMAIN files
                         THEN Append(files[name].writes, w) ELSE <<w>>])
    @@ files

\* run_analysis is called, in this process or another
BeginRun(r) ==
    /\ runs[r].at = 0
    /\ \E ticker \in DiskTickers :
          runs' = [runs EXCEPT ![r] = [ticker |-> ticker, at |-> 1]]
    /\ UNCHANGED <<clock, disk>>
    /\ UNCHANGED <<runVars, apiVars, agentCall>>

\* _save_agent_report, and the final report of run_analysis
SaveReport(r) ==
    /\ runs[r].at \in DOMAIN StageNames
    /\ LET stage == StageNames[runs[r].at]
           ticker == runs[r].ticker
       IN  disk' = OpenWrite(disk, FileName(stage, ticker, StrfTime(clock)),
                             ReportOf(r, stage), WriteOf(r, stage, ticker, clock))
    /\ runs' = [runs EXCEPT ![r].at = @ + 1]
    /\ UNCHANGED clock
    /\ UNCHANGED <<runVars, apiVars, agentCall>>

\* a stage that produced no result saves nothing
NoReport(r) ==
    /\ runs[r].at \in DOMAIN StageNames
    /\ StageNames[runs[r].at] # "final_report"
    /\ runs' = [runs EXCEPT ![r].at = @ + 1]
    /\ UNCHANGED <<clock, disk>>
    /\ UNCHANGED <<runVars, apiVars, agentCall>>

Tick ==
    /\ clock < MaxClock
    /\ clock' = clock + 1
    /\ UNCHANGED <<runs, disk>>
    /\ UNCHANGED <<runVars, apiVars, agentCall>>

DiskNext ==
    \/ \E r \in RunIds : BeginRun(r)
    \/ \E r \in RunIds : SaveReport(r)
    \/ \E r \in RunIds : NoReport(r)
    \/ Tick

DiskSpec == Init /\ [][DiskNext]_vars

-----------------------------------------------------------------------------
(* Properties of the output directory *)

AllWrites == UNION {{disk[n].writes[i] : i \in DOMAIN disk[n].writes} : n \in DOMAIN disk}

WrittenOnce(n) == Len(disk[n].writes) = 1

\* C21 (as stated): no two writes target the same file name, so every file
\* of the output directory was written once and holds what was written.
C21_NamesNeverReused ==
    \A n \in DOMAIN disk :
        /\ WrittenOnce(n)
        /\ disk[n].content = ReportOf(disk[n].writes[1].run, disk[n].writes[1].stage)

\* C21 (amended): two writes target the same file name only if they are of
\* the same stage, for the same ticker and in the same second of the clock;
\* writes for different tickers, of different stages or in different
\* seconds go to different files, and a file written once holds what was
\* written.
C21_NamesByTickerStageSecond ==
    /\ \A n \in DOMAIN disk :
          /\ \A i, j \in DOMAIN disk[n].writes :
                /\ disk[n].writes[i].ticker = disk[n].writes[j].ticker
                /\ disk[n].writes[i].stage = disk[n].writes[j].stage
                /\ disk[n].writes[i].second = disk[n].writes[j].second
          /\ LET last == disk[n].writes[Len(disk[n].writes)]
             IN  disk[n].content = ReportOf(last.run, last.stage)
    /\ \A n, m \in DOMAIN disk :
          (/\ disk[n].writes[1].ticker = disk[m].writes[1].ticker
           /\ disk[n].writes[1].stage = disk[m].writes[1].stage
           /\ disk[n].writes[1].second = disk[m].writes[1].second) => n = m

C21_TwoTickersSameSecond ==
    /\ \A r \in RunIds : runs[r].at = Len(StageNames) + 1
    /\ runs[1].ticker # runs[2].ticker
    /\ Cardinality(DOMAIN disk) = 2 * Len(StageNames)
    /\ \A w \in AllWrites : w.second = Seconds[1]

-----------------------------------------------------------------------------
(* The Executive Summary of the final report against the state it was       *)
(* synthesized from                                                         *)

\* a final report as _generate_final_report wrote it, and its state
FinalWritten ==
    /\ apiFile # <<>>
    /\ apiFile.stage = "final_report"
    /\ apiEdit = <<>>
    /\ apiSource # <<>>

\* the position of the first token tok of v, 0 when v has none
IndexOf(v, tok) ==
    LET I == {k \in DOMAIN v : v[k] = tok}
    IN  IF I = {} THEN 0 ELSE Min(I)

\* the characters cs are a number written with two decimals, and it is x
ReadsAs(cs, x) ==
    /\ Len(cs) >= 4
    /\ cs[Len(cs) - 2] = "."
    /\ \A k \in DOMAIN cs :
          cs[k] \in DigitSet \/ k = Len(cs) - 2 \/ (k = 1 /\ cs[k] = "-")
    /\ ParseFloat(cs).v = x

\* name (Score: s, Confidence: c%)
ReadsAsSummary(v, name, score, confidence) ==
    LET i == IndexOf(v, " (Score: ")
        j == IndexOf(v, ", Confidence: ")
    IN  /\ i = 2 /\ j > i /\ Len(v) >= j + 2
        /\ v[1] = name
        /\ ReadsAs(SubSeq(v, i + 1, j - 1), Fixed2(score))
        /\ ReadsAs(SubSeq(v, j + 1, Len(v) - 2), Percent2(confidence))
        /\ SubSeq(v, Len(v) - 1, Len(v)) = <<"%", ")">>

\* t (n verified, Confidence: c%)
ReadsAsEvents(v, total, verified, confidence) ==
    LET i == IndexOf(v, " (")
        j == IndexOf(v, " verified, Confidence: ")
    IN  /\ i > 1 /\ j > i + 1 /\ Len(v) >= j + 2
        /\ \A k \in (1..(i - 1)) \cup ((i + 1)..(j - 1)) : v[k] \in DigitSet
        /\ DigitsToNat(SubSeq(v, 1, i - 1)) = total
        /\ DigitsToNat(SubSeq(v, i + 1, j - 1)) = verified
        /\ ReadsAs(SubSeq(v, j + 1, Len(v) - 2), Percent2(confidence))
        /\ SubSeq(v, Len(v) - 1, Len(v)) = <<"%", ")">>

SummaryFields(report) ==
    SelectSeq(SectionBody(report, "Executive Summary"), LAMBDA l : l.t = "bfield")

\* C22: the Executive Summary of a final report has, for each stage whose
\* result the state holds, the values of that result: the label, the score
\* with two decimals and the confidence as a percentage with two decimals
\* for sentiment and volatility, the two counts and the confidence for the
\* events, and the historical volatility as a percentage.
C22_SummaryShowsState ==
    FinalWritten =>
        LET st == Source
            f == SummaryFields(apiFile.content)
        IN  /\ Len(f) = 4
            /\ f[1].s = "Sentiment"
            /\ f[2].s = "Events Detected"
            /\ f[3].s = "Predicted Volatility"
            /\ f[4].s = "Historical Volatility"
            /\ Has(st, "sentiment_result") =>
                  ReadsAsSummary(f[1].v, st.sentiment_result.overall_sentiment,
                                 st.sentiment_result.sentiment_score,
                                 st.sentiment_result.confidence)
            /\ Has(st, "event_detection_result") =>
                  ReadsAsEvents(f[2].v, st.event_detection_result.total_events_found,
                                st.event_detection_result.verified_count,
                                st.event_detection_result.confidence)
            /\ Has(st, "volatility_result") =>
                  /\ ReadsAsSummary(f[3].v, st.volatility_result.predicted_volatility,
                                    st.volatility_result.volatility_score,
                                    st.volatility_result.confidence)
                  /\ Len(f[4].v) >= 1
                  /\ f[4].v[Len(f[4].v)] = "%"
                  /\ ReadsAs(SubSeq(f[4].v, 1, Len(f[4].v) - 1),
                             Percent2(st.volatility_result.historical_volatility))

C22_NinetyPercentNegativeScore ==
    /\ FinalWritten
    /\ Has(Source, "sentiment_result")
    /\ Has(Source, "event_detection_result")
    /\ Has(Source, "volatility_result")
    /\ Source.sentiment_result.confidence = (90 * Scale) \div 100
    /\ Source.sentiment_result.sentiment_score < 0
    /\ SummaryFields(apiFile.content)[1].v =
          <<"very_negative", " (Score: ", "-", "0", ".", "2", "5",
            ", Confidence: ", "9", "0", ".", "0", "0", "%", ")">>

-----------------------------------------------------------------------------
(* Ranges of the numbers of a result *)

UnitRange == 0..Scale

TheResult == TheCall.upd[ResultKeyOfAgent[TheCall.agent]]

\* C23: the result process() returns for the state has its confidence, and
\* the confidence of each of its insights, in [0,1]; an event result has a
\* verified count no greater than its total.
C23_ResultsInRange ==
    (Called /\ TheCall.ok) =>
        /\ TheResult.confidence \in UnitRange
        /\ TheCall.agent = "volatility" =>
              \A i \in DOMAIN TheResult.transcript_insights :
                  TheResult.transcript_insights[i].confidence \in UnitRange
        /\ TheCall.agent = "event_detection" =>
              TheResult.verified_count <= TheResult.total_events_found

-----------------------------------------------------------------------------
(* The interrupted run *)

Interrupted == pc = "Interrupted"

\* the nodes that returned before the run ended
Returned == {log[i].node : i \in DOMAIN log}

\* the node that saves the report of a stage
NodeOfReport ==
    [sentiment |-> "sentiment_analysis",
     event_detection |-> "event_detection",
     volatility |-> "volatility_prediction"]

\* every artifact is the report of a stage that had completed
ArtifactsOfCompleted ==
    \A i \in DOMAIN artifacts :
        IF artifacts[i].stage = "final_report"
        THEN Returned = {NodeOrder[k] : k \in DOMAIN NodeOrder}
        ELSE NodeOfReport[artifacts[i].stage] \in Returned

-----------------------------------------------------------------------------
(* The event list of an event report, read back *)

EventReportRead == ReadAsWritten /\ apiFile.stage = "event_detection"

-----------------------------------------------------------------------------
(* The confidence-summary table of the final report, read back *)

FinalReportRead == ReadAsWritten /\ apiFile.stage = "final_report"

\* the result keys of the stages whose rows the table has, in row order
RowKeys(st) ==
    SelectSeq(<<"sentiment_result", "event_detection_result", "volatility_result">>,
              LAMBDA key : Has(st, key))

-----------------------------------------------------------------------------
(* The Executive Summary of the final report, read back *)

\* C27: generate_final_report applied to the final report of a state that
\* holds a sentiment result returns the label of that result, its score
\* rounded to two decimals and its confidence as the percentage written,
\* whatever the sign of the score.
C27_SentimentReadBack ==
    (FinalReportRead /\ Has(Source, "sentiment_result")) =>
        /\ ~Out.raised
        /\ Out.sentiment = <<Source.sentiment_result.overall_sentiment>>
        /\ Out.sentiment_score = Fixed2(Source.sentiment_result.sentiment_score)
        /\ Out.sentiment_confidence = Percent2(Source.sentiment_result.confidence)

-----------------------------------------------------------------------------
(* A failed stage in the final report, read back *)

\* the Literal types of the labels
SentimentLabels == {"very_positive", "positive", "neutral", "negative", "very_negative"}
VolatilityLabels == {"very_high", "high", "moderate", "low", "very_low"}

\* x is a number of hundredths between lo and hi
Hundredth(x, lo, hi) == x \in lo..hi /\ x % (Scale \div 100) = 0

\* what the summary line of a stage that produced a result can read as
SentimentReading(out) ==
    /\ out.sentiment \in {<<l>> : l \in SentimentLabels}
    /\ Hundredth(out.sentiment_score, -Scale, Scale)
    /\ Hundredth(out.sentiment_confidence, 0, 100 * Scale)
VolatilityReading(out) ==
    /\ out.predicted_volatility \in {<<l>> : l \in VolatilityLabels}
    /\ Hundredth(out.volatility_score, 0, Scale)
    /\ Hundredth(out.volatility_confidence, 0, 100 * Scale)

\* C28: generate_final_report applied to the final report of a state without
\* a sentiment result does not return a sentiment label, score and
\* confidence that a sentiment result could have given, and likewise for a
\* state without a volatility result.
C28_FailedStageTold ==
    FinalReportRead =>
        /\ ~Out.raised
        /\ ~Has(Source, "sentiment_result") => ~SentimentReading(Out)
        /\ ~Has(Source, "volatility_result") => ~VolatilityReading(Out)

-----------------------------------------------------------------------------
(* The analytic stages and the coordinator's plan *)

\* the analytic stages among the nodes invoked, in the order invoked
AnalyticInvoked == SelectSeq(invoked, LAMBDA n : n \in AnalyticNodes)

PlanFailed == \E i \in DOMAIN log : log[i].node = "coordinator" /\ log[i].failed

\* C29: no analytic stage is ever invoked twice, and a run that has left the
\* workflow has invoked sentiment, events and volatility once each, in that
\* order, when the plan stage failed as when it gave a decision, whichever
\* agents and steps the decision lists.
C29_StagesWhateverThePlan ==
    /\ IsPrefix(AnalyticInvoked, AgentNames)
    /\ pc \in {"END", "Done"} =>
          /\ AnalyticInvoked = AgentNames
          /\ PlanFailed \/ state.metacognitive_decision \in Decisions

C29_PlanOfOneAgentDone ==
    /\ pc = "Done"
    /\ Has(state, "metacognitive_decision")
    /\ state.metacognitive_decision.agents_to_invoke = <<"sentiment_analysis">>
    /\ state.metacognitive_decision.analysis_plan = <<"Assess sentiment">>
    /\ AnalyticInvoked = AgentNames
    /\ Has(state, "event_detection_result")
    /\ Has(state, "volatility_result")

-----------------------------------------------------------------------------
(* The document that load_transcript stores *)

\* the step just taken is _load_transcript_node reading this file
LoadedFrom(file) ==
    /\ pc = "load_transcript"
    /\ pc' # "Raised"
    /\ state' = Merge(state, LoadTranscriptUpdate(state, file))

\* C30: a load_transcript step that read a document which exists and can be
\* read stores the document's whole text as transcript_content and leaves
\* the errors of the state as they were, whatever the text is.
C30_DocumentStoredUnchanged ==
    [][\A file \in Files :
          (file.exists /\ file.readable /\ LoadedFrom(file)) =>
              /\ state'.transcript_content = file.content
              /\ ErrorsOf(state') = ErrorsOf(state)]_vars

=============================================================================
